---- MODULE Spec2Model ----
(***************************************************************************)
(* A model of the microfrontend platform: the MFE registry                 *)
(* (packages/platform/src/config.ts, apps/shell/src/mfe-registry.ts), the  *)
(* shell's route binder and lazy remote loading                            *)
(* (apps/shell/src/components/MfeRoutes.tsx, packages/platform/src/        *)
(* react.tsx) and the runtime override resolution of                       *)
(* docs/DEV_WORKFLOW_SKETCH.md.                                            *)
(*                                                                         *)
(* JavaScript strings are modelled as sequences of one-character strings,  *)
(* so that split, startsWith, the digit test and template concatenation    *)
(* are computed and not assumed.  An optional value (T | undefined) is the *)
(* empty tuple when undefined and the one-element tuple <<v>> when set.    *)
(***************************************************************************)
EXTENDS Naturals, Sequences, FiniteSets, TLC

VARIABLES
    (* registry construction: config.ts createMfeRegistry, mfe-registry.ts *)
    regInput,           \* the MfeConfig[] handed to createMfeRegistry
    regPhase,           \* "pending" before the registry module is evaluated, "built" after
    regThrew,           \* whether evaluating createMfeRegistry threw
    mfeRegistry,        \* Record<string, MfeConfig>, own keys in insertion order
    mfeList,            \* Object.values(mfeRegistry), taken once at module load
    (* the shell's route binder: MfeRoutes.tsx, react.tsx *)
    mfeComponentCache,  \* Map<string, LazyExoticComponent>: name -> the lazy's payload
    loadCalls,          \* per name, how often the lazy's loader function has run
    mounts,             \* per mount region: the MfeWrapper shown there and its ErrorBoundary
    lateSettled,        \* names whose import settled while no MfeWrapper showed them
    (* runtime overrides: docs/DEV_WORKFLOW_SKETCH.md runtime-config.ts, dynamic-loader.ts *)
    search,             \* params.getAll('mfe-override') of window.location.search
    storage,            \* localStorage item 'mfe-overrides'
    isProd,             \* import.meta.env.PROD
    allowOverrides,     \* import.meta.env.VITE_ALLOW_MFE_OVERRIDES is set
    initialized,        \* dynamic-loader.ts: let initialized
    remotes,            \* the remotes handed to the federation runtime's init()
    loaderError,        \* the exception that escaped initMfeDynamicLoader, if one did
    (* the shell's build configuration: packages/platform/src/vite.ts *)
    mode,               \* the Vite mode of the build; the config sets NODE_ENV to it
    shellConfig,        \* what createShellConfig returned, once the config is evaluated
    (* callers of the registry module's query functions: mfe-registry.ts *)
    lastCall,           \* the latest call of a query function and what it returned
    previewSearch,      \* params.getAll('mfe-preview') of window.location.search
    dynamicCache,       \* Step 3's mfeComponentCache: cache key -> the lazy and where it loads from
    (* the shell's UserProvider: apps/shell/src/remotes.d.ts (UserContext) *)
    userProvider,       \* useState's committed user and the setUser updates not yet rendered
    userContextValue,   \* the value the last render gave to UserContext.Provider
    userHistory,        \* history: whether the latest login/logout call was a logout
    latestSet,          \* history: per name, the url of its latest setMfeOverride not cleared since
    (* ErrorBoundary instances around arbitrary children: react.tsx *)
    boundaries,         \* per instance: its state and what its last render returned
    (* callers of createMfeConfig / createShellConfig: packages/platform/src/vite.ts *)
    viteOptions,        \* the options object handed to the function
    viteConfig          \* the federation settings of the config it returned

regVars == <<regInput, regPhase, regThrew, mfeRegistry, mfeList>>

mountVars == <<mfeComponentCache, loadCalls, mounts, lateSettled>>

overrideVars == <<search, storage, isProd, allowOverrides, initialized, remotes, loaderError>>

buildVars == <<mode, shellConfig>>

queryVars == <<lastCall>>

boundaryVars == <<boundaries>>

coreVars == <<regVars, mountVars, overrideVars, buildVars>>

viteVars == <<viteOptions, viteConfig>>

previewVars == <<previewSearch>>

historyVars == <<latestSet>>

dynamicVars == <<dynamicCache>>

userVars == <<userProvider, userContextValue, userHistory>>

extVars == <<queryVars, boundaryVars, viteVars, previewVars, historyVars, dynamicVars, userVars>>

exceptQuery ==
    <<coreVars, boundaryVars, viteVars, previewVars, historyVars, dynamicVars, userVars>>

exceptBoundary ==
    <<coreVars, queryVars, viteVars, previewVars, historyVars, dynamicVars, userVars>>

exceptVite ==
    <<coreVars, queryVars, boundaryVars, previewVars, historyVars, dynamicVars, userVars>>

exceptDynamic ==
    <<coreVars, queryVars, boundaryVars, viteVars, previewVars, historyVars, userVars>>

exceptUser ==
    <<coreVars, queryVars, boundaryVars, viteVars, previewVars, historyVars, dynamicVars>>

\* what the write path of the persisted overrides leaves alone
exceptStorage == <<regVars, mountVars, search, isProd, allowOverrides, initialized, remotes,
                   loaderError, buildVars, boundaryVars, viteVars, previewVars, dynamicVars,
                   userVars>>

\* what a client-side navigation leaves alone
exceptSearch == <<regVars, mountVars, storage, isProd, allowOverrides, initialized, remotes,
                  loaderError, buildVars, extVars>>

vars == <<regInput, regPhase, regThrew, mfeRegistry, mfeList,
          mfeComponentCache, loadCalls, mounts, lateSettled,
          search, storage, isProd, allowOverrides, initialized, remotes, loaderError,
          mode, shellConfig, extVars>>

(***************************************************************************)
(* Bounds of the model.                                                    *)
(***************************************************************************)
MaxMfes == 2            \* longest registration list drawn in SpecRegistry
NumMounts == 2          \* mount regions rendering an MfeWrapper at the same time
MaxHints == 2           \* mfe-override parameters in one query string
MaxStored == 1          \* records in the persisted 'mfe-overrides' array
NumBoundaries == 2      \* ErrorBoundary instances in SpecBoundary
MaxShared == 2          \* entries of the shared option drawn in SpecVite
MaxPreviews == 2        \* mfe-preview parameters in one query string
MaxPending == 2         \* setUser updates queued between two renders of UserProvider

(***************************************************************************)
(* Strings.                                                                *)
(***************************************************************************)
Range(s) == {s[i] : i \in DOMAIN s}

Undefined == <<>>
Some(v) == <<v>>
IsDefined(o) == Len(o) > 0

\* a ?? b that always takes b
CoalesceIgnoringValue(o, d) == d

\* a ?? b
Coalesce(o, d) == IF IsDefined(o) THEN o[1] ELSE d

Digits == {"0", "1", "2", "3", "4", "5", "6", "7", "8", "9"}

DigitChar(d) ==
    CASE d = 0 -> "0" [] d = 1 -> "1" [] d = 2 -> "2" [] d = 3 -> "3" [] d = 4 -> "4"
      [] d = 5 -> "5" [] d = 6 -> "6" [] d = 7 -> "7" [] d = 8 -> "8" [] d = 9 -> "9"

\* `${n}` for a non-negative integer n
RECURSIVE NumToStr(_)
NumToStr(n) == IF n < 10 THEN <<DigitChar(n)>> ELSE NumToStr(n \div 10) \o <<DigitChar(n % 10)>>

DigitValue(c) == CHOOSE d \in 0 .. 9 : DigitChar(d) = c

\* a < b for two canonical numeric strings (no leading zeros)
NumericLess(a, b) ==
    \/ Len(a) < Len(b)
    \/ /\ Len(a) = Len(b)
       /\ \E i \in DOMAIN a :
             /\ DigitValue(a[i]) < DigitValue(b[i])
             /\ \A j \in 1 .. (i - 1) : a[j] = b[j]

\* 2^32 - 1, the first number that is no array index
S_maxIndex == <<"4", "2", "9", "4", "9", "6", "7", "2", "9", "5">>

S_mfe1 == <<"m", "f", "e", "1">>
S_mfe2 == <<"m", "f", "e", "2">>
S_checkout == <<"c", "h", "e", "c", "k", "o", "u", "t">>
S_slash == <<"/">>

(***************************************************************************)
(* MfeConfig descriptors (types.ts MfeConfig): the fields with a runtime   *)
(* effect.                                                                 *)
(***************************************************************************)
MfeConfig(name, routePath, devPort, prodPath) ==
    [name |-> name, routePath |-> routePath, devPort |-> devPort, prodPath |-> prodPath]

\* defineMfe returns its argument.
defineMfe(config) == config

\* The two entries of the shipped registry, and the entry its doc comment
\* gives as the example of onboarding a new MFE.
Mfe1Config == defineMfe(MfeConfig(S_mfe1, S_slash \o S_mfe1, 3001, Undefined))
Mfe2Config == defineMfe(MfeConfig(S_mfe2, S_slash \o S_mfe2, 3002, Undefined))
CheckoutConfig == defineMfe(MfeConfig(S_checkout, S_slash \o S_checkout, 3003, Undefined))

ShippedMfes == <<Mfe1Config, Mfe2Config>>

(***************************************************************************)
(* A JavaScript object used as Record<string, MfeConfig>: the own keys in  *)
(* the order Object.keys lists them, and the value of each key.            *)
(* An object lists its integer-like keys (array indices: canonical numeric  *)
(* strings below 2^32 - 1) first, in ascending numeric order, and its      *)
(* other string keys after them, in the order they were added.             *)
(***************************************************************************)
EmptyObject == [keys |-> <<>>, val |-> <<>>]

IsArrayIndex(k) ==
    /\ Len(k) > 0
    /\ \A i \in DOMAIN k : k[i] \in Digits
    /\ (Len(k) = 1 \/ k[1] # "0")
    /\ NumericLess(k, S_maxIndex)

\* the place a new key takes among the own keys
KeyPlace(keys, k) ==
    IF IsArrayIndex(k)
    THEN 1 + Cardinality({i \in DOMAIN keys :
                             IsArrayIndex(keys[i]) /\ NumericLess(keys[i], k)})
    ELSE Len(keys) + 1

InsertAt(seq, p, x) == SubSeq(seq, 1, p - 1) \o <<x>> \o SubSeq(seq, p, Len(seq))

ObjHas(obj, k) == k \in Range(obj.keys)

ObjIndex(obj, k) == CHOOSE i \in DOMAIN obj.keys : obj.keys[i] = k

\* a lookup that answers with the first descriptor of the object
ObjGetFirst(obj, k) == IF ObjHas(obj, k) THEN Some(obj.val[1]) ELSE Undefined

\* obj[k], undefined when k is no own key
ObjGet(obj, k) == IF ObjHas(obj, k) THEN Some(obj.val[ObjIndex(obj, k)]) ELSE Undefined

\* obj[k] = v: a key already present keeps its place and takes the new value
ObjSet(obj, k, v) ==
    IF ObjHas(obj, k)
    THEN [obj EXCEPT !.val[ObjIndex(obj, k)] = v]
    ELSE [keys |-> InsertAt(obj.keys, KeyPlace(obj.keys, k), k),
          val |-> InsertAt(obj.val, KeyPlace(obj.keys, k), v)]

ObjectKeys(obj) == obj.keys
ObjectValues(obj) == obj.val

(***************************************************************************)
(* createMfeRegistry: mfes.reduce((acc, mfe) => { acc[mfe.name] = mfe;     *)
(* return acc }, {}).  There is no validation step and no throw.           *)
(***************************************************************************)
RECURSIVE Reduce(_, _, _)
Reduce(acc, mfes, i) ==
    IF i > Len(mfes) THEN acc ELSE Reduce(ObjSet(acc, mfes[i].name, mfes[i]), mfes, i + 1)

createMfeRegistry(mfes) == [threw |-> FALSE, value |-> Reduce(EmptyObject, mfes, 1)]

(***************************************************************************)
(* mfe-registry.ts queries.                                                *)
(***************************************************************************)
getMfe(name) == ObjGet(mfeRegistry, name)
getMfeNames == ObjectKeys(mfeRegistry)
hasMfe(name) == ObjHas(mfeRegistry, name)

\* Math.max(3000, ...values)
RECURSIVE MathMax(_, _, _)
MathMax(floor, values, i) ==
    IF i > Len(values) THEN floor
    ELSE MathMax(IF values[i] > floor THEN values[i] ELSE floor, values, i + 1)

\* mfeList.map((mfe) => mfe.devPort)
usedPorts == [i \in DOMAIN mfeList |-> mfeList[i].devPort]

getNextAvailablePortWithoutIncrement ==
    LET maxPort == MathMax(3000, usedPorts, 1)
    IN  maxPort

getNextAvailablePort ==
    LET maxPort == MathMax(3000, usedPorts, 1)
    IN  maxPort + 1

\* A caller of the registry module: each query reads mfeRegistry or mfeList
\* and returns; the module assigns neither after it was evaluated.
Call(fn, arg, result) == [fn |-> fn, arg |-> arg, result |-> result]

CallGetMfe(name) ==
    /\ regPhase = "built"
    /\ lastCall' = Some(Call("getMfe", name, getMfe(name)))
    /\ UNCHANGED exceptQuery

CallGetMfeNames ==
    /\ regPhase = "built"
    /\ lastCall' = Some(Call("getMfeNames", <<>>, getMfeNames))
    /\ UNCHANGED exceptQuery

CallHasMfe(name) ==
    /\ regPhase = "built"
    /\ lastCall' = Some(Call("hasMfe", name, hasMfe(name)))
    /\ UNCHANGED exceptQuery

CallGetNextAvailablePortReversingList ==
    /\ regPhase = "built"
    /\ lastCall' = Some(Call("getNextAvailablePort", <<>>, getNextAvailablePort))
    /\ mfeList' = [i \in DOMAIN mfeList |-> mfeList[Len(mfeList) + 1 - i]]
    /\ UNCHANGED <<regInput, regPhase, regThrew, mfeRegistry, mountVars, overrideVars, buildVars, boundaryVars, viteVars, previewVars, historyVars, dynamicVars,
                  userVars>>

CallGetNextAvailablePort ==
    /\ regPhase = "built"
    /\ lastCall' = Some(Call("getNextAvailablePort", <<>>, getNextAvailablePort))
    /\ UNCHANGED exceptQuery

QueryIdle == lastCall = Undefined

(***************************************************************************)
(* The route binder (MfeRoutes.tsx).  A lazy component is modelled by its  *)
(* payload as React.lazy keeps it: uninitialized until first rendered,     *)
(* pending once the loader has been called, then resolved or rejected for  *)
(* good.  A rejected payload rethrows its reason on every later render and *)
(* never calls the loader again.                                           *)
(***************************************************************************)
S_App == <<"/", "A", "p", "p">>
S_UnknownMfe == <<"U", "n", "k", "n", "o", "w", "n", " ", "M", "F", "E", ":", " ">>
\* the reason a failing import('<name>/App') rejects with (set by the federation runtime)
S_importFailed == <<"F", "a", "i", "l", "e", "d", " ", "t", "o", " ", "f", "e", "t", "c", "h">>

AllNames == {S_mfe1, S_mfe2, S_checkout}

Mounts == 1 .. NumMounts

NewLazy == [status |-> "uninitialized", module |-> Undefined, result |-> Undefined]

CacheHas(cache, name) == name \in DOMAIN cache

CacheSet(cache, name, lz) ==
    [k \in DOMAIN cache \cup {name} |-> IF k = name THEN lz ELSE cache[k]]

\* A getMfeComponent without the cache test: a new lazy component on every call.
getMfeComponentUnmemoized(cache, mfeName) == CacheSet(cache, mfeName, NewLazy)

\* getMfeComponent: the cache after the call (the returned component is the entry).
getMfeComponent(cache, mfeName) ==
    IF ~CacheHas(cache, mfeName) THEN CacheSet(cache, mfeName, NewLazy) ELSE cache

\* A loader that imports `${mfeName}/App` for whatever name it is given.
LazyLoaderAnyName(mfeName) == Some(mfeName \o S_App)

\* The loader passed to lazy(): the switch on mfeName.  The specifier imported,
\* or undefined for the default branch's Promise.reject(new Error(`Unknown MFE: ...`)).
LazyLoader(mfeName) ==
    CASE mfeName = S_mfe1 -> Some(S_mfe1 \o S_App)
      [] mfeName = S_mfe2 -> Some(S_mfe2 \o S_App)
      [] OTHER -> Undefined

\* What the loader's promise rejects with.
RejectionReason(lz, mfeName) ==
    IF IsDefined(lz.module) THEN S_importFailed ELSE S_UnknownMfe \o mfeName

(***************************************************************************)
(* One mount region: the MfeWrapper element rendered there (its mfe prop), *)
(* the state of its ErrorBoundary, what the region shows, and the basePath *)
(* prop of the MfeComponent rendered in it.                                *)
(***************************************************************************)
EmptyMount ==
    [mfe |-> Undefined, hasError |-> FALSE, error |-> Undefined, shown |-> "nothing",
     basePath |-> Undefined]

IsMounted(m) == IsDefined(m.mfe)
MountedName(m) == m.mfe[1].name
Shows(m, name) == IsMounted(m) /\ MountedName(m) = name

\* ErrorBoundary.render: the fallback when hasError and error are both truthy.
RendersFallback(m) == m.hasError /\ IsDefined(m.error)

\* Navigation between two MFE routes: both elements are <MfeWrapper>, unkeyed,
\* at the same place of the tree, so the MfeWrapper and its ErrorBoundary
\* instance are kept and only the mfe prop changes.
BoundaryAfterPropsChange(m, mfe) == [m EXCEPT !.mfe = Some(mfe)]

(***************************************************************************)
(* The route binder: generateMfeRoutes, one <Route> per element of mfeList. *)
(***************************************************************************)
S_splat == <<"/", "*">>

\* routes whose path is the routePath itself, without the splat
generateMfeRoutesExactPath(list) ==
    [i \in DOMAIN list |->
        [key |-> list[i].name, path |-> list[i].routePath, element |-> [mfe |-> list[i]]]]

generateMfeRoutes(list) ==
    [i \in DOMAIN list |->
        [key |-> list[i].name, path |-> list[i].routePath \o S_splat,
         element |-> [mfe |-> list[i]]]]

\* the props MfeWrapper gives to the lazy component
MfeComponentProps(mfe) == [basePath |-> mfe.routePath]

(***************************************************************************)
(* Rendering <MfeWrapper mfe={...}>: getMfeComponent, then the boundary,   *)
(* then Suspense around the lazy component.  The result is the region, the *)
(* cache and the loader call counts after the render has settled.          *)
(***************************************************************************)
RenderMfeWrapper(m, cache, calls) ==
    LET name == MountedName(m)
        c1 == getMfeComponent(cache, name)
    IN  IF RendersFallback(m)
        THEN [mount |-> [m EXCEPT !.shown = "fallback", !.basePath = Undefined],
              cache |-> c1, calls |-> calls]
        ELSE LET first == c1[name].status = "uninitialized"
                 c2 == IF first
                       THEN CacheSet(c1, name, [status |-> "pending",
                                                module |-> LazyLoader(name),
                                                result |-> Undefined])
                       ELSE c1
                 n2 == IF first THEN [calls EXCEPT ![name] = @ + 1] ELSE calls
                 lz == c2[name]
                 \* <MfeComponent basePath={mfe.routePath} />
                 props == MfeComponentProps(m.mfe[1])
                 view ==
                     CASE lz.status = "pending" ->
                            [m EXCEPT !.shown = "spinner", !.basePath = Some(props.basePath)]
                       [] lz.status = "resolved" ->
                            [m EXCEPT !.shown = "app", !.basePath = Some(props.basePath)]
                       [] lz.status = "rejected" ->
                            \* getDerivedStateFromError, then the fallback
                            [m EXCEPT !.hasError = TRUE, !.error = lz.result,
                                      !.shown = "fallback", !.basePath = Undefined]
             IN  [mount |-> view, cache |-> c2, calls |-> n2]

\* A settled import applied to every region, whatever it shows now.
AfterSettleUnguarded(m, name, cache) ==
    IF cache[name].status = "rejected"
    THEN [m EXCEPT !.hasError = TRUE, !.error = cache[name].result, !.shown = "fallback",
                   !.basePath = Undefined]
    ELSE [m EXCEPT !.shown = "app"]

\* A settled import re-renders the regions suspended on that lazy component;
\* a region that no longer renders it is not touched.
AfterSettle(m, name, cache) ==
    IF Shows(m, name) THEN RenderMfeWrapper(m, cache, loadCalls).mount ELSE m

MountInit ==
    /\ mfeComponentCache = <<>>
    /\ loadCalls = [n \in AllNames |-> 0]
    /\ mounts = [s \in Mounts |-> EmptyMount]
    /\ lateSettled = {}

\* Navigation from a non-MFE route to mfeList[i].routePath + "/*": a new
\* MfeWrapper with a new ErrorBoundary ({hasError: false, error: null}).
Mount(s, i) ==
    /\ ~IsMounted(mounts[s])
    /\ LET route == generateMfeRoutes(mfeList)[i]
           r == RenderMfeWrapper([EmptyMount EXCEPT !.mfe = Some(route.element.mfe)],
                                 mfeComponentCache, loadCalls)
       IN  /\ mounts' = [mounts EXCEPT ![s] = r.mount]
           /\ mfeComponentCache' = r.cache
           /\ loadCalls' = r.calls
    /\ UNCHANGED <<regVars, lateSettled, overrideVars, buildVars, extVars>>

\* <MfeWrapper mfe={mfe} /> rendered outside the generated routes (MfeWrapper
\* is exported) with a descriptor whose name is not in the registry.
RenderWrapper(s, mfe) ==
    /\ ~IsMounted(mounts[s])
    /\ ~hasMfe(mfe.name)
    /\ LET r == RenderMfeWrapper([EmptyMount EXCEPT !.mfe = Some(mfe)],
                                 mfeComponentCache, loadCalls)
       IN  /\ mounts' = [mounts EXCEPT ![s] = r.mount]
           /\ mfeComponentCache' = r.cache
           /\ loadCalls' = r.calls
    /\ UNCHANGED <<regVars, lateSettled, overrideVars, buildVars, extVars>>

\* Navigation from one MFE route to another.
Switch(s, i) ==
    /\ IsMounted(mounts[s])
    /\ mounts[s].mfe[1] # mfeList[i]
    /\ LET route == generateMfeRoutes(mfeList)[i]
           r == RenderMfeWrapper(BoundaryAfterPropsChange(mounts[s], route.element.mfe),
                                 mfeComponentCache, loadCalls)
       IN  /\ mounts' = [mounts EXCEPT ![s] = r.mount]
           /\ mfeComponentCache' = r.cache
           /\ loadCalls' = r.calls
    /\ UNCHANGED <<regVars, lateSettled, overrideVars, buildVars, extVars>>

\* Navigation to a non-MFE route ("/"): the MfeWrapper is unmounted.
Unmount(s) ==
    /\ IsMounted(mounts[s])
    /\ mounts' = [mounts EXCEPT ![s] = EmptyMount]
    /\ UNCHANGED <<regVars, mfeComponentCache, loadCalls, lateSettled, overrideVars, buildVars, extVars>>

Settle(name, status) ==
    LET lz == mfeComponentCache[name]
        c2 == CacheSet(mfeComponentCache, name,
                       [lz EXCEPT !.status = status,
                                  !.result = IF status = "rejected"
                                             THEN Some(RejectionReason(lz, name))
                                             ELSE Undefined])
    IN  /\ mfeComponentCache' = c2
        /\ mounts' = [s \in Mounts |-> AfterSettle(mounts[s], name, c2)]
        /\ lateSettled' = IF \E s \in Mounts : Shows(mounts[s], name)
                          THEN lateSettled ELSE lateSettled \cup {name}
        /\ UNCHANGED <<regVars, loadCalls, overrideVars, buildVars, extVars>>

\* import('<name>/App') fulfils.
ImportResolves(name) ==
    /\ CacheHas(mfeComponentCache, name)
    /\ mfeComponentCache[name].status = "pending"
    /\ IsDefined(mfeComponentCache[name].module)
    /\ Settle(name, "resolved")

\* The loader's promise rejects: a failed import, or the default branch.
ImportRejects(name) ==
    /\ CacheHas(mfeComponentCache, name)
    /\ mfeComponentCache[name].status = "pending"
    /\ Settle(name, "rejected")

\* A Retry that drops the remote's cache entry before rendering again.
RetryEvictingCache(s) ==
    /\ IsMounted(mounts[s])
    /\ mounts[s].shown = "fallback"
    /\ LET name == MountedName(mounts[s])
           evicted == [k \in DOMAIN mfeComponentCache \ {name} |-> mfeComponentCache[k]]
           r == RenderMfeWrapper([mounts[s] EXCEPT !.hasError = FALSE, !.error = Undefined],
                                 evicted, loadCalls)
       IN  /\ mounts' = [mounts EXCEPT ![s] = r.mount]
           /\ mfeComponentCache' = r.cache
           /\ loadCalls' = r.calls
    /\ UNCHANGED <<regVars, lateSettled, overrideVars, buildVars, extVars>>

\* The fallback's Retry button: ErrorBoundary.retry =
\* setState({hasError: false, error: null}), and the render that follows.
Retry(s) ==
    /\ IsMounted(mounts[s])
    /\ mounts[s].shown = "fallback"
    /\ LET r == RenderMfeWrapper([mounts[s] EXCEPT !.hasError = FALSE, !.error = Undefined],
                                 mfeComponentCache, loadCalls)
       IN  /\ mounts' = [mounts EXCEPT ![s] = r.mount]
           /\ mfeComponentCache' = r.cache
           /\ loadCalls' = r.calls
    /\ UNCHANGED <<regVars, lateSettled, overrideVars, buildVars, extVars>>

(***************************************************************************)
(* Runtime overrides (docs/DEV_WORKFLOW_SKETCH.md, Part 1).                *)
(***************************************************************************)
S_colon == ":"
S_http == <<"h", "t", "t", "p">>
S_scheme == <<"h", "t", "t", "p", ":", "/", "/">>
S_localhost == <<"l", "o", "c", "a", "l", "h", "o", "s", "t">>
S_httpLocalhost == S_scheme \o S_localhost \o <<":">>
S_manifest == <<"/", "m", "f", "-", "m", "a", "n", "i", "f", "e", "s", "t", ".", "j", "s", "o", "n">>
S_ghost == <<"g", "h", "o", "s", "t">>
S_fooTest == <<"f", "o", "o", ".", "t", "e", "s", "t">>
S_httpbinOrg == <<"h", "t", "t", "p", "b", "i", "n", ".", "o", "r", "g">>

\* String.prototype.split with a one-character separator
RECURSIVE SplitFrom(_, _, _, _, _)
SplitFrom(str, sep, i, cur, acc) ==
    IF i > Len(str) THEN Append(acc, cur)
    ELSE IF str[i] = sep THEN SplitFrom(str, sep, i + 1, <<>>, Append(acc, cur))
    ELSE SplitFrom(str, sep, i + 1, Append(cur, str[i]), acc)

Split(str, sep) == SplitFrom(str, sep, 1, <<>>, <<>>)

\* array destructuring: the i-th element, undefined past the end
ElementAt(arr, i) == IF i <= Len(arr) THEN Some(arr[i]) ELSE Undefined

\* !x for x a string or undefined
IsFalsy(o) == ~IsDefined(o) \/ o[1] = <<>>

\* str.match(/^\d+$/)
MatchesDigits(str) == Len(str) > 0 /\ \A i \in DOMAIN str : str[i] \in Digits

\* str.startsWith(prefix)
StartsWith(str, prefix) == Len(str) >= Len(prefix) /\ SubSeq(str, 1, Len(prefix)) = prefix

\* the shorthand of parseOverridesFromUrl
NormalizeUrl(urlOrPort) ==
    IF MatchesDigits(urlOrPort) THEN S_httpLocalhost \o urlOrPort
    ELSE IF StartsWith(urlOrPort, S_http) THEN urlOrPort
    ELSE S_scheme \o urlOrPort

MfeOverride(name, url) == [name |-> name, url |-> url]

\* A parse that gives up at the first malformed hint (break for continue).
RECURSIVE ParseHintsStopAtMalformed(_, _, _)
ParseHintsStopAtMalformed(values, i, overrides) ==
    IF i > Len(values) THEN overrides
    ELSE LET parts == Split(values[i], S_colon)
             name == ElementAt(parts, 1)
             urlOrPort == ElementAt(parts, 2)
         IN  IF IsFalsy(name) \/ IsFalsy(urlOrPort)
             THEN overrides
             ELSE ParseHintsStopAtMalformed(values, i + 1,
                             Append(overrides, MfeOverride(name[1], NormalizeUrl(urlOrPort[1]))))

\* parseOverridesFromUrl: one pass over params.getAll('mfe-override')
RECURSIVE ParseHints(_, _, _)
ParseHints(values, i, overrides) ==
    IF i > Len(values) THEN overrides
    ELSE LET parts == Split(values[i], S_colon)
             name == ElementAt(parts, 1)
             urlOrPort == ElementAt(parts, 2)
         IN  IF IsFalsy(name) \/ IsFalsy(urlOrPort)
             THEN ParseHints(values, i + 1, overrides)
             ELSE ParseHints(values, i + 1,
                             Append(overrides, MfeOverride(name[1], NormalizeUrl(urlOrPort[1]))))

parseOverridesFromUrl(values) == ParseHints(values, 1, <<>>)

\* A function's outcome: the value it returns, or that it threw.
Return(v) == [threw |-> FALSE, value |-> v]
Throw(v) == [threw |-> TRUE, value |-> v]

\* A Map<string, string>: the keys in insertion order and their values.
EmptyMap == [keys |-> <<>>, val |-> <<>>]

MapHas(map, k) == k \in Range(map.keys)

\* map.get(k), undefined when the map has no such key
MapGet(map, k) ==
    IF MapHas(map, k)
    THEN Some(map.val[CHOOSE i \in DOMAIN map.keys : map.keys[i] = k])
    ELSE Undefined

\* map.set(k, v): a key already present keeps its place
MapSet(map, k, v) ==
    IF MapHas(map, k)
    THEN [map EXCEPT !.val[CHOOSE i \in DOMAIN map.keys : map.keys[i] = k] = v]
    ELSE [keys |-> Append(map.keys, k), val |-> Append(map.val, v)]

\* localStorage.getItem('mfe-overrides'): null (kind "null"), the text of a
\* JSON array of {name, url} records (JSON.stringify of such an array parses
\* back to it), a text that is no JSON ("invalid"), or the JSON text of a
\* value that is no array: null, a number, an object.
NoItem == [kind |-> "null", records |-> <<>>]
StoredArray(records) == [kind |-> "array", records |-> records]
StoredText(kind) == [kind |-> kind, records |-> <<>>]

\* A JavaScript value as far as a for...of over it can tell: an array with
\* its items, or a value that is not iterable.
JsArray(items) == [type |-> "array", items |-> items]
JsNotIterable(type) == [type |-> type, items |-> <<>>]

IsIterable(v) == v.type = "array"

\* parseOverridesFromStorage: try { return stored ? JSON.parse(stored) : [] }
\* catch { return [] }.  What JSON.parse returns is returned unexamined.
parseOverridesFromStorage(item) ==
    CASE item.kind = "null" -> JsArray(<<>>)
      [] item.kind = "invalid" -> JsArray(<<>>)
      [] item.kind = "array" -> JsArray(item.records)
      [] item.kind = "jsonNull" -> JsNotIterable("null")
      [] item.kind = "jsonNumber" -> JsNotIterable("number")
      [] item.kind = "jsonObject" -> JsNotIterable("object")

\* for (const {name, url} of list) overrideMap.set(name, url)
RECURSIVE SetAll(_, _, _)
SetAll(map, list, i) ==
    IF i > Len(list) THEN map ELSE SetAll(MapSet(map, list[i].name, list[i].url), list, i + 1)

\* A merge in which the persisted entries are written last.
MergeOverridesStorageLast(storageOverrides, urlOverrides) ==
    IF ~IsIterable(storageOverrides)
    THEN Throw(EmptyMap)
    ELSE Return(SetAll(SetAll(EmptyMap, urlOverrides, 1), storageOverrides.items, 1))

\* getMfeOverrides as Step 1 gives it: storage first, URL params over it.
\* for...of over a value that is not iterable throws a TypeError, and there
\* is no try around the loops.
MergeOverrides(storageOverrides, urlOverrides) ==
    IF ~IsIterable(storageOverrides)
    THEN Throw(EmptyMap)
    ELSE Return(SetAll(SetAll(EmptyMap, storageOverrides.items, 1), urlOverrides, 1))

\* A getMfeOverrides without the production guard of Step 5.
getMfeOverridesUnguarded(values, item, prod, allow) ==
    MergeOverrides(parseOverridesFromStorage(item), parseOverridesFromUrl(values))

\* getMfeOverrides with the guard Step 5 puts in front of it.
getMfeOverrides(values, item, prod, allow) ==
    IF prod /\ ~allow
    THEN Return(EmptyMap)
    ELSE MergeOverrides(parseOverridesFromStorage(item), parseOverridesFromUrl(values))

\* const baseUrl = import.meta.env.PROD ? '' : 'http://localhost:3000'
BaseUrl(prod) == IF prod THEN <<>> ELSE S_httpLocalhost \o NumToStr(3000)

\* A resolver that applies the default rule before looking at the override.
RemoteEntryDefaultFirst(name, config, overrides, defaultBaseUrl) ==
    [name |-> name,
     entry |-> defaultBaseUrl \o Coalesce(config.prodPath, config.routePath) \o S_manifest]

\* A resolver that takes the first override of the Map, whatever its name.
RemoteEntryAnyOverride(name, config, overrides, defaultBaseUrl) ==
    IF overrides.keys # <<>> /\ overrides.val[1] # <<>>
    THEN [name |-> name, entry |-> overrides.val[1] \o S_manifest]
    ELSE [name |-> name,
          entry |-> defaultBaseUrl \o Coalesce(config.prodPath, config.routePath)
                        \o S_manifest]

\* One element of initMfeDynamicLoader's remotes: the override when
\* overrides.get(name) is truthy, else the default production URL.
RemoteEntry(name, config, overrides, defaultBaseUrl) ==
    LET overrideUrl == MapGet(overrides, name)
    IN  IF ~IsFalsy(overrideUrl)
        THEN [name |-> name, entry |-> overrideUrl[1] \o S_manifest]
        ELSE [name |-> name,
              entry |-> defaultBaseUrl \o Coalesce(config.prodPath, config.routePath)
                            \o S_manifest]

\* Object.entries(mfeRegistry).map(...)
Remotes(registry, overrides, defaultBaseUrl) ==
    [i \in DOMAIN ObjectKeys(registry) |->
        RemoteEntry(ObjectKeys(registry)[i], ObjectValues(registry)[i], overrides,
                    defaultBaseUrl)]

OverrideIdle ==
    /\ search = <<>>
    /\ storage = NoItem
    /\ isProd = FALSE
    /\ allowOverrides = FALSE
    /\ initialized = FALSE
    /\ remotes = <<>>
    /\ loaderError = Undefined

\* initMfeDynamicLoader(mfeRegistry, {defaultBaseUrl: baseUrl}), called once,
\* when the shell's MfeRoutes module is evaluated.  An exception thrown by
\* getMfeOverrides escapes it before init() and initialized = true.
initMfeDynamicLoader ==
    /\ ~initialized
    /\ ~IsDefined(loaderError)
    /\ LET overrides == getMfeOverrides(search, storage, isProd, allowOverrides)
       IN  IF overrides.threw
           THEN /\ loaderError' = Some("TypeError")
                /\ UNCHANGED <<initialized, remotes>>
           ELSE /\ remotes' = Remotes(mfeRegistry, overrides.value, BaseUrl(isProd))
                /\ initialized' = TRUE
                /\ UNCHANGED loaderError
    /\ UNCHANGED <<regVars, mountVars, search, storage, isProd, allowOverrides, buildVars, extVars>>

\* loadRemote(`${mfeName}/App`) of the federation runtime, for a runtime
\* initialised with the given remote names: the module of a remote it knows
\* (with or without a default export) or a failure; for a name it was not
\* given, a failure (a rejected promise, or null).
LoadRemoteOutcomes(mfeName, remoteNames) ==
    IF mfeName \in Range(remoteNames)
    THEN {[kind |-> "module", hasDefault |-> TRUE], [kind |-> "module", hasDefault |-> FALSE],
          [kind |-> "rejected", hasDefault |-> FALSE]}
    ELSE {[kind |-> "rejected", hasDefault |-> FALSE], [kind |-> "null", hasDefault |-> FALSE]}

\* loadMfeComponent: await loadRemote(...); if (!module?.default) throw
loadMfeComponent(mfeName, outcome) ==
    IF outcome.kind = "rejected" THEN Throw("loadRemote")
    ELSE IF ~(outcome.kind = "module" /\ outcome.hasDefault) THEN Throw("no default export")
    ELSE Return(mfeName \o S_App)

(***************************************************************************)
(* The shell's build configuration (vite.ts createShellConfig): the        *)
(* remotes of the federation plugin, one per entry of the registry.        *)
(***************************************************************************)
S_shell == <<"s", "h", "e", "l", "l">>
S_cdn == <<"/", "c", "d", "n">>

Modes == {"production", "development"}

\* One turn of the loop over Object.entries(mfes): remotes[mfeName] = {...}
ShellRemote(mfeName, mfeConfig, isProduction) ==
    LET prodPath == Coalesce(mfeConfig.prodPath, mfeConfig.routePath)
        devUrl == S_httpLocalhost \o NumToStr(mfeConfig.devPort)
        mfeUrl == IF isProduction THEN prodPath ELSE devUrl
    IN  [type |-> "module", name |-> mfeName, entry |-> mfeUrl \o S_manifest,
         entryGlobalName |-> mfeName]

RECURSIVE ShellRemotes(_, _, _, _)
ShellRemotes(acc, mfes, isProduction, i) ==
    IF i > Len(ObjectKeys(mfes)) THEN acc
    ELSE ShellRemotes(ObjSet(acc, ObjectKeys(mfes)[i],
                             ShellRemote(ObjectKeys(mfes)[i], ObjectValues(mfes)[i],
                                         isProduction)),
                      mfes, isProduction, i + 1)

S_react == <<"r", "e", "a", "c", "t">>
S_reactDom == <<"r", "e", "a", "c", "t", "-", "d", "o", "m">>
S_reactRouterDom == <<"r", "e", "a", "c", "t", "-", "r", "o", "u", "t", "e", "r", "-", "d", "o", "m">>
S_cloudscapeComponents == <<"@", "c", "l", "o", "u", "d", "s", "c", "a", "p", "e", "-", "d", "e", "s", "i", "g", "n", "/", "c", "o", "m", "p", "o", "n", "e", "n", "t", "s">>
S_cloudscapeGlobalStyles == <<"@", "c", "l", "o", "u", "d", "s", "c", "a", "p", "e", "-", "d", "e", "s", "i", "g", "n", "/", "g", "l", "o", "b", "a", "l", "-", "s", "t", "y", "l", "e", "s">>
S_lodash == <<"l", "o", "d", "a", "s", "h">>

\* SharedConfig: { singleton?, eager? }
SharedConfig(singleton, eager) == [singleton |-> singleton, eager |-> eager]

\* const DEFAULT_SHARED
DEFAULT_SHARED ==
    [keys |-> <<S_react, S_reactDom, S_reactRouterDom, S_cloudscapeComponents,
                S_cloudscapeGlobalStyles>>,
     val |-> [i \in 1 .. 5 |-> SharedConfig(Some(TRUE), Undefined)]]

\* { ...target, ...source }: the own keys of source are set on a copy of target
RECURSIVE Spread(_, _, _)
Spread(target, source, i) ==
    IF i > Len(ObjectKeys(source)) THEN target
    ELSE Spread(ObjSet(target, ObjectKeys(source)[i], ObjectValues(source)[i]), source, i + 1)

\* createShellConfig({mfes, shared = {}}): isProd = process.env.NODE_ENV === 'production'
createShellConfig(mfes, shared, nodeEnv) ==
    [name |-> S_shell, remotes |-> ShellRemotes(EmptyObject, mfes, nodeEnv = "production", 1),
     shared |-> Spread(DEFAULT_SHARED, shared, 1)]

\* createMfeConfig({mfe, shellUrl, shared = {}})
createMfeConfig(mfe, shellUrl, shared, nodeEnv) ==
    LET isProduction == nodeEnv = "production"
        prodPath == Coalesce(mfe.prodPath, mfe.routePath)
        resolvedShellUrl ==
            Coalesce(shellUrl, IF isProduction THEN <<>> ELSE S_httpLocalhost \o NumToStr(3000))
    IN  [name |-> mfe.name,
         remotes |-> ObjSet(EmptyObject, S_shell,
                            [type |-> "module", name |-> S_shell,
                             entry |-> resolvedShellUrl \o S_manifest,
                             entryGlobalName |-> S_shell]),
         shared |-> Spread(DEFAULT_SHARED, shared, 1)]

BuildIdle ==
    /\ mode = "development"
    /\ shellConfig = Undefined

\* Evaluation of the shell's Vite config: process.env.NODE_ENV = mode, then
\* createShellConfig({mfes: mfeRegistry, ...}).
EvaluateShellViteConfig ==
    /\ ~IsDefined(shellConfig)
    /\ shellConfig' = Some(createShellConfig(mfeRegistry, EmptyObject, mode))
    /\ UNCHANGED <<regVars, mountVars, overrideVars, mode, extVars>>

\* A vite.config.ts that calls createMfeConfig(options) or
\* createShellConfig(options) with the options object it wrote.
MfeViteConfig(mfe, shellUrl, shared) ==
    [kind |-> "mfe", mfe |-> mfe, shellUrl |-> shellUrl, shared |-> shared]

ShellViteConfig(shared) ==
    [kind |-> "shell", mfe |-> Mfe1Config, shellUrl |-> Undefined, shared |-> shared]

CallCreateMfeConfig ==
    /\ IsDefined(viteOptions)
    /\ viteOptions[1].kind = "mfe"
    /\ viteConfig' = Some(createMfeConfig(viteOptions[1].mfe, viteOptions[1].shellUrl,
                                          viteOptions[1].shared, mode))
    /\ UNCHANGED <<viteOptions, exceptVite>>

CallCreateShellConfig ==
    /\ IsDefined(viteOptions)
    /\ viteOptions[1].kind = "shell"
    /\ viteConfig' = Some(createShellConfig(mfeRegistry, viteOptions[1].shared, mode))
    /\ UNCHANGED <<viteOptions, exceptVite>>

ViteIdle == viteOptions = Undefined /\ viteConfig = Undefined

(***************************************************************************)
(* ErrorBoundary (react.tsx) around arbitrary children.  A child may throw *)
(* any JavaScript value; React hands the thrown value as it is to          *)
(* getDerivedStateFromError.                                               *)
(***************************************************************************)
JsValue(type, text, num) == [type |-> type, text |-> text, num |-> num]
JsNull == JsValue("null", <<>>, 0)
JsUndefined == JsValue("undefined", <<>>, 0)
JsError(message) == JsValue("Error", message, 0)
JsString(text) == JsValue("string", text, 0)
JsNumber(num) == JsValue("number", <<>>, num)

\* ToBoolean of a JavaScript value
Truthy(v) ==
    CASE v.type = "Error" -> TRUE
      [] v.type = "string" -> v.text # <<>>
      [] v.type = "number" -> v.num # 0
      [] OTHER -> FALSE

ThrownValues ==
    {JsError(S_importFailed), JsError(<<>>), JsString(S_importFailed), JsString(<<>>),
     JsNumber(1), JsNumber(0), JsNull, JsUndefined}

\* constructor: this.state = { hasError: false, error: null }
ErrorBoundaryState(hasError, error) == [hasError |-> hasError, error |-> error]
InitialBoundaryState == ErrorBoundaryState(FALSE, JsNull)

getDerivedStateFromError(error) == ErrorBoundaryState(TRUE, error)

\* render(): if (this.state.hasError && this.state.error) the fallback,
\* else this.props.children
render(state) == IF state.hasError /\ Truthy(state.error) THEN "fallback" ELSE "children"

Boundaries == 1 .. NumBoundaries

Boundary(state, output) == [state |-> state, output |-> output]

BoundaryInit == boundaries = [b \in Boundaries |-> Boundary(InitialBoundaryState, "children")]

BoundaryIdle == boundaries = <<>>

(***************************************************************************)
(* Preview support of runtime-config.ts (DEV_WORKFLOW_SKETCH.md, preview   *)
(* deployments): parsePreviewsFromUrl and getMfeUrl.                       *)
(***************************************************************************)
S_previewPath == <<"/", "p", "r", "e", "v", "i", "e", "w", "/">>

MfePreview(name, version) == [name |-> name, version |-> version]

\* parsePreviewsFromUrl: one pass over params.getAll('mfe-preview')
RECURSIVE ParsePreviews(_, _, _)
ParsePreviews(values, i, previews) ==
    IF i > Len(values) THEN previews
    ELSE LET parts == Split(values[i], S_colon)
             name == ElementAt(parts, 1)
             version == ElementAt(parts, 2)
         IN  IF ~IsFalsy(name) /\ ~IsFalsy(version)
             THEN ParsePreviews(values, i + 1, Append(previews, MfePreview(name[1], version[1])))
             ELSE ParsePreviews(values, i + 1, previews)

parsePreviewsFromUrl(values) == ParsePreviews(values, 1, <<>>)

\* previews.find(p => p.name === mfeName)
FindPreview(previews, mfeName) ==
    IF \E i \in DOMAIN previews : previews[i].name = mfeName
    THEN Some(previews[CHOOSE i \in DOMAIN previews :
                          /\ previews[i].name = mfeName
                          /\ \A j \in DOMAIN previews : previews[j].name = mfeName => i <= j])
    ELSE Undefined

\* A getMfeUrl that looks at the preview hints before the overrides.
getMfeUrlPreviewFirst(mfeName, config, baseUrl) ==
    LET overrides == getMfeOverrides(search, storage, isProd, allowOverrides)
        preview == FindPreview(parsePreviewsFromUrl(previewSearch), mfeName)
    IN  IF overrides.threw THEN Throw(<<>>)
        ELSE IF IsDefined(preview)
        THEN Return(baseUrl \o S_previewPath \o mfeName \o S_slash \o preview[1].version)
        ELSE IF MapHas(overrides.value, mfeName)
        THEN Return(MapGet(overrides.value, mfeName)[1])
        ELSE Return(baseUrl \o Coalesce(config.prodPath, config.routePath))

\* getMfeUrl(mfeName, config, baseUrl); what getMfeOverrides throws escapes it
getMfeUrl(mfeName, config, baseUrl) ==
    LET overrides == getMfeOverrides(search, storage, isProd, allowOverrides)
    IN  IF overrides.threw THEN Throw(<<>>)
        ELSE IF MapHas(overrides.value, mfeName)
        THEN Return(MapGet(overrides.value, mfeName)[1])
        ELSE LET previews == parsePreviewsFromUrl(previewSearch)
                 preview == FindPreview(previews, mfeName)
             IN  IF IsDefined(preview)
                 THEN Return(baseUrl \o S_previewPath \o mfeName \o S_slash
                                \o preview[1].version)
                 ELSE Return(baseUrl \o Coalesce(config.prodPath, config.routePath))

CallGetMfeUrl(mfeName, config, baseUrl) ==
    /\ lastCall' = Some(Call("getMfeUrl",
                             [mfeName |-> mfeName, config |-> config, baseUrl |-> baseUrl],
                             getMfeUrl(mfeName, config, baseUrl)))
    /\ UNCHANGED exceptQuery

PreviewIdle == previewSearch = <<>>

(***************************************************************************)
(* The write path of the persisted overrides (runtime-config.ts, Step 1):  *)
(* setMfeOverride, clearMfeOverride, clearAllOverrides.  JSON.stringify of *)
(* an array of {name, url} records is the text JSON.parse reads back as    *)
(* that array.                                                             *)
(***************************************************************************)
StorageNames == {S_mfe1, S_mfe2, S_ghost}

\* overrides.findIndex(o => o.name === name), 0 for -1
FindIndex(overrides, name) ==
    IF \E i \in DOMAIN overrides : overrides[i].name = name
    THEN CHOOSE i \in DOMAIN overrides :
            /\ overrides[i].name = name
            /\ \A j \in DOMAIN overrides : overrides[j].name = name => i <= j
    ELSE 0

\* A setMfeOverride that pushes without looking for an existing record.
SetOverrideAlwaysPush(overrides, name, url) == Append(overrides, MfeOverride(name, url))

\* if (existing >= 0) overrides[existing].url = url else overrides.push({name, url})
SetOverride(overrides, name, url) ==
    LET existing == FindIndex(overrides, name)
    IN  IF existing > 0
        THEN [overrides EXCEPT ![existing].url = url]
        ELSE Append(overrides, MfeOverride(name, url))

\* setMfeOverride(name, url).  parseOverridesFromStorage() of a stored value
\* that is no array has no findIndex: the call throws and writes nothing.
setMfeOverride(name, url) ==
    /\ LET overrides == parseOverridesFromStorage(storage)
       IN  IF IsIterable(overrides)
           THEN /\ storage' = StoredArray(SetOverride(overrides.items, name, url))
                /\ latestSet' = [latestSet EXCEPT ![name] = Some(url)]
           ELSE UNCHANGED <<storage, latestSet>>
    /\ lastCall' = Some(Call("setMfeOverride", name, <<>>))
    /\ UNCHANGED exceptStorage

\* clearMfeOverride(name): filter, then setItem
clearMfeOverride(name) ==
    /\ LET overrides == parseOverridesFromStorage(storage)
       IN  IF IsIterable(overrides)
           THEN /\ storage' = StoredArray(SelectSeq(overrides.items, LAMBDA o : o.name # name))
                /\ latestSet' = [latestSet EXCEPT ![name] = Undefined]
           ELSE UNCHANGED <<storage, latestSet>>
    /\ lastCall' = Some(Call("clearMfeOverride", name, <<>>))
    /\ UNCHANGED exceptStorage

\* clearAllOverrides(): localStorage.removeItem('mfe-overrides')
clearAllOverrides ==
    /\ storage' = NoItem
    /\ latestSet' = [n \in StorageNames |-> Undefined]
    /\ lastCall' = Some(Call("clearAllOverrides", <<>>, <<>>))
    /\ UNCHANGED exceptStorage

HistoryIdle == latestSet = [n \in StorageNames |-> Undefined]

(***************************************************************************)
(* Step 3: MfeRoutes.tsx with dynamic loading.  The cache is keyed by the  *)
(* name, or by name@url when getMfeOverrides() holds the name at the time  *)
(* of the lookup.  The lazy's loader is loadMfeComponent(mfeName), whose   *)
(* loadRemote(`${mfeName}/App`) fetches the manifest the federation        *)
(* runtime was given for that name by init(), when initMfeDynamicLoader    *)
(* ran.                                                                    *)
(***************************************************************************)
S_at == <<"@">>

\* the entry init() was given for the remote, undefined for an unknown name
RuntimeEntry(rs, mfeName) ==
    IF \E i \in DOMAIN rs : rs[i].name = mfeName
    THEN Some(rs[CHOOSE i \in DOMAIN rs : rs[i].name = mfeName].entry)
    ELSE Undefined

\* const cacheKey = overrides.has(mfeName) ? `${mfeName}@${overrides.get(mfeName)}` : mfeName
CacheKey(overrides, mfeName) ==
    IF MapHas(overrides, mfeName)
    THEN mfeName \o S_at \o MapGet(overrides, mfeName)[1]
    ELSE mfeName

\* A lazy component of the dynamic cache: the remote it loads and the
\* manifest its load is served from.
DynamicLazy(mfeName, manifest) == [mfeName |-> mfeName, manifest |-> manifest]

\* getMfeComponent(mfeName) of Step 3, and the first render of the lazy it
\* returns, in a page whose loader is initialised.
getDynamicMfeComponent(mfeName) ==
    /\ initialized
    /\ LET overrides == getMfeOverrides(search, storage, isProd, allowOverrides)
       IN  /\ ~overrides.threw
           /\ LET cacheKey == CacheKey(overrides.value, mfeName)
              IN  dynamicCache' =
                      IF ~CacheHas(dynamicCache, cacheKey)
                      THEN CacheSet(dynamicCache, cacheKey,
                                    DynamicLazy(mfeName, RuntimeEntry(remotes, mfeName)))
                      ELSE dynamicCache
    /\ UNCHANGED exceptDynamic

\* A client-side navigation: the router changes window.location.search,
\* no module is evaluated again.
Navigate(values) ==
    /\ initialized
    /\ search' = values
    /\ UNCHANGED exceptSearch

DynamicIdle == dynamicCache = <<>>

(***************************************************************************)
(* The shell's UserProvider.  setUser calls made between two renders are   *)
(* queued and applied in call order by the next render; the context value  *)
(* (user, isAuthenticated: user !== null) is built by that render.  A      *)
(* User, and a Partial<User>, is a record of optional fields: a field that *)
(* is not there is Undefined.                                              *)
(***************************************************************************)
UserFields == {"id", "name", "email", "role", "avatar"}

User(id, name, email, role, avatar) ==
    [id |-> id, name |-> name, email |-> email, role |-> role, avatar |-> avatar]

MOCK_USER ==
    User(Some("1"), Some("John Doe"), Some("john@example.com"), Some("admin"),
         Some("https://api.dicebear.com/7.x/avataaars/svg?seed=John"))

\* { ...current, ...updates } also when current is null
ApplyUpdatesWithoutNullCheck(current, updates) ==
    Some([f \in UserFields |->
            IF IsDefined(updates[f]) THEN updates[f]
            ELSE IF IsDefined(current) THEN current[1][f] ELSE Undefined])

\* current => current ? { ...current, ...updates } : null
ApplyUpdates(current, updates) ==
    IF IsDefined(current)
    THEN Some([f \in UserFields |->
                 IF IsDefined(updates[f]) THEN updates[f] ELSE current[1][f]])
    ELSE Undefined

\* what is handed to setUser: a value, or an updater function of updates
SetValue(user) == [kind |-> "value", user |-> user, updates |-> [f \in UserFields |-> Undefined]]
SetUpdater(updates) == [kind |-> "updater", user |-> Undefined, updates |-> updates]

\* React applies the queued setUser calls in order
RECURSIVE ProcessQueue(_, _, _)
ProcessQueue(current, pending, i) ==
    IF i > Len(pending) THEN current
    ELSE ProcessQueue(IF pending[i].kind = "value" THEN pending[i].user
                      ELSE ApplyUpdates(current, pending[i].updates),
                      pending, i + 1)

\* value={{ user, isAuthenticated: user !== null, ... }}
ContextValue(user) == [user |-> user, isAuthenticated |-> IsDefined(user)]

\* useState<User | null>(MOCK_USER) and the first render
UserInit ==
    /\ userProvider = [user |-> Some(MOCK_USER), pending |-> <<>>]
    /\ userContextValue = ContextValue(Some(MOCK_USER))
    /\ userHistory = [loggedOut |-> FALSE, updatedSince |-> FALSE]

\* login = (newUser) => setUser(newUser)
login(newUser) ==
    /\ Len(userProvider.pending) < MaxPending
    /\ userProvider' = [userProvider EXCEPT !.pending = Append(@, SetValue(Some(newUser)))]
    /\ userHistory' = [loggedOut |-> FALSE, updatedSince |-> FALSE]
    /\ UNCHANGED <<userContextValue, exceptUser>>

\* logout = () => setUser(null)
logout ==
    /\ Len(userProvider.pending) < MaxPending
    /\ userProvider' = [userProvider EXCEPT !.pending = Append(@, SetValue(Undefined))]
    /\ userHistory' = [loggedOut |-> TRUE, updatedSince |-> FALSE]
    /\ UNCHANGED <<userContextValue, exceptUser>>

\* updateUser = (updates) => setUser(current => current ? {...current, ...updates} : null)
updateUser(updates) ==
    /\ Len(userProvider.pending) < MaxPending
    /\ userProvider' = [userProvider EXCEPT !.pending = Append(@, SetUpdater(updates))]
    /\ userHistory' = [userHistory EXCEPT !.updatedSince = TRUE]
    /\ UNCHANGED <<userContextValue, exceptUser>>

\* The render React schedules after setUser: the queue is applied and the
\* provider's value is built from the new state.
RenderUserProvider ==
    /\ userProvider.pending # <<>>
    /\ LET user == ProcessQueue(userProvider.user, userProvider.pending, 1)
       IN  /\ userProvider' = [user |-> user, pending |-> <<>>]
           /\ userContextValue' = ContextValue(user)
    /\ UNCHANGED <<userHistory, exceptUser>>

ExtIdle ==
    /\ QueryIdle /\ BoundaryIdle /\ ViteIdle /\ PreviewIdle /\ HistoryIdle /\ DynamicIdle
    /\ UserInit

\* A child of boundary b throws value while it renders.  React sets the
\* state getDerivedStateFromError returns and renders the boundary again.
\* When that render returns the children, they either render this time or
\* throw again; the second throw is not given to this boundary again, React
\* passes it to the next boundary up and this subtree is unmounted.
ChildThrows(b, value, throwsAgain) ==
    /\ boundaries[b].output = "children"
    /\ LET state == getDerivedStateFromError(value)
           output == render(state)
       IN  boundaries' = [boundaries EXCEPT ![b] =
                Boundary(state, IF output = "children" /\ throwsAgain
                                THEN "unmounted" ELSE output)]
    /\ UNCHANGED exceptBoundary

\* retry = () => this.setState({ hasError: false, error: null }), called by
\* the fallback's button, and the render that follows
BoundaryRetry(b) ==
    /\ boundaries[b].output = "fallback"
    /\ LET state == ErrorBoundaryState(FALSE, JsNull)
       IN  boundaries' = [boundaries EXCEPT ![b] = Boundary(state, render(state))]
    /\ UNCHANGED exceptBoundary

BoundaryNext ==
    \/ \E b \in Boundaries, value \in ThrownValues, throwsAgain \in BOOLEAN :
            ChildThrows(b, value, throwsAgain)
    \/ \E b \in Boundaries : BoundaryRetry(b)

(***************************************************************************)
(* SpecRegistry: the registry module is evaluated on a registration list   *)
(* drawn from short lists of descriptors, repeated names and route paths   *)
(* included.                                                               *)
(***************************************************************************)
S_7 == <<"7">>

RegNames == {S_mfe1, S_mfe2, S_7}
RegRoutePaths == {S_slash \o S_mfe1, S_slash \o S_mfe2}
RegDevPorts == {2999, 3001, 3002}
RegProdPaths == {Undefined}

RegDescriptors ==
    {MfeConfig(n, r, p, pp) : n \in RegNames, r \in RegRoutePaths, p \in RegDevPorts,
                              pp \in RegProdPaths}

RECURSIVE SeqsUpTo(_, _)
SeqsUpTo(S, n) ==
    IF n = 0 THEN {<<>>}
    ELSE LET shorter == SeqsUpTo(S, n - 1)
         IN  shorter \cup {Append(s, x) : s \in {t \in shorter : Len(t) = n - 1}, x \in S}

RegInit ==
    /\ regInput \in SeqsUpTo(RegDescriptors, MaxMfes)
    /\ regPhase = "pending"
    /\ regThrew = FALSE
    /\ mfeRegistry = EmptyObject
    /\ mfeList = <<>>
    /\ MountInit
    /\ OverrideIdle
    /\ BuildIdle
    /\ ExtIdle

\* Evaluation of mfe-registry.ts: mfeRegistry = createMfeRegistry([...]),
\* then mfeList = Object.values(mfeRegistry).  A throw leaves both unset.
LoadRegistryModule ==
    /\ regPhase = "pending"
    /\ LET r == createMfeRegistry(regInput)
       IN  /\ regThrew' = r.threw
           /\ mfeRegistry' = IF r.threw THEN EmptyObject ELSE r.value
           /\ mfeList' = IF r.threw THEN <<>> ELSE ObjectValues(r.value)
    /\ regPhase' = "built"
    /\ UNCHANGED <<regInput, mountVars, overrideVars, buildVars, extVars>>

QueryNames == RegNames \cup {S_ghost}

\* MfeRoutes.tsx: export const mfeRoutes = generateMfeRoutes(), over mfeList
CallGenerateMfeRoutes ==
    /\ regPhase = "built"
    /\ lastCall' = Some(Call("generateMfeRoutes", <<>>, generateMfeRoutes(mfeList)))
    /\ UNCHANGED exceptQuery

\* the dynamic loader resolves every registered remote's manifest URL
ResolveManifests == regPhase = "built" /\ initMfeDynamicLoader

RegNext ==
    \/ LoadRegistryModule
    \/ CallGenerateMfeRoutes
    \/ ResolveManifests
    \/ \E name \in QueryNames : CallGetMfe(name)
    \/ CallGetMfeNames
    \/ \E name \in QueryNames : CallHasMfe(name)
    \/ CallGetNextAvailablePort

SpecRegistry == RegInit /\ [][RegNext]_vars

(***************************************************************************)
(* Spec: the shell's page session.  The registry is the shipped one, or    *)
(* the shipped one with the MFE of the registry's onboarding example       *)
(* added; routes are generated from mfeList.                               *)
(***************************************************************************)
Registrations == {ShippedMfes, Append(ShippedMfes, CheckoutConfig)}

Init ==
    /\ regInput \in Registrations
    /\ regPhase = "built"
    /\ regThrew = FALSE
    /\ mfeRegistry = createMfeRegistry(regInput).value
    /\ mfeList = ObjectValues(createMfeRegistry(regInput).value)
    /\ MountInit
    /\ OverrideIdle
    /\ BuildIdle
    /\ ExtIdle

WrapperProps == {Mfe1Config, Mfe2Config, CheckoutConfig}

Next ==
    \/ \E s \in Mounts, i \in DOMAIN mfeList : Mount(s, i)
    \/ \E s \in Mounts, mfe \in WrapperProps : RenderWrapper(s, mfe)
    \/ \E s \in Mounts, i \in DOMAIN mfeList : Switch(s, i)
    \/ \E s \in Mounts : Unmount(s)
    \/ \E name \in AllNames : ImportResolves(name)
    \/ \E name \in AllNames : ImportRejects(name)
    \/ \E s \in Mounts : Retry(s)

Spec == Init /\ [][Next]_vars

(***************************************************************************)
(* SpecOverrides: a page load of the shell with the shipped registry.  The *)
(* query string, the persisted overrides and the build's environment are   *)
(* drawn; the dynamic loader is then initialised from them.                *)
(***************************************************************************)
S_8888 == <<"8", "8", "8", "8">>
S_9999 == <<"9", "9", "9", "9">>
S_3001 == NumToStr(3001)

Hints ==
    { S_mfe1 \o <<":">> \o S_8888,                                  \* mfe1:8888
      S_mfe1 \o <<":">> \o S_httpLocalhost \o S_3001,               \* mfe1:http://localhost:3001
      S_mfe1 \o <<":">> \o S_localhost \o <<":">> \o S_3001,        \* mfe1:localhost:3001
      S_mfe2 \o <<":">> \o S_fooTest,                               \* mfe2:foo.test
      S_mfe2 \o <<":">> \o S_httpbinOrg,                            \* mfe2:httpbin.org
      S_ghost \o <<":">> \o S_3001,                                 \* ghost:3001
      S_mfe1,                                                       \* mfe1
      S_mfe1 \o <<":">>,                                            \* mfe1:
      <<":">> \o S_3001 }                                           \* :3001

StoredRecords ==
    { MfeOverride(S_mfe1, S_9999),
      MfeOverride(S_mfe1, S_httpLocalhost \o S_9999),
      MfeOverride(S_mfe1, <<>>),
      MfeOverride(S_ghost, S_9999) }

MalformedItems ==
    {StoredText("invalid"), StoredText("jsonNull"), StoredText("jsonNumber"),
     StoredText("jsonObject")}

StoredItems ==
    {NoItem} \cup {StoredArray(r) : r \in SeqsUpTo(StoredRecords, MaxStored)}
        \cup MalformedItems

OverridesInit ==
    /\ regInput = ShippedMfes
    /\ regPhase = "built"
    /\ regThrew = FALSE
    /\ mfeRegistry = createMfeRegistry(ShippedMfes).value
    /\ mfeList = ObjectValues(createMfeRegistry(ShippedMfes).value)
    /\ MountInit
    /\ search \in SeqsUpTo(Hints, MaxHints)
    /\ storage \in StoredItems
    /\ isProd \in BOOLEAN
    /\ allowOverrides \in BOOLEAN
    /\ initialized = FALSE
    /\ remotes = <<>>
    /\ loaderError = Undefined
    /\ BuildIdle
    /\ ExtIdle

OverridesNext == initMfeDynamicLoader

SpecOverrides == OverridesInit /\ [][OverridesNext]_vars

(***************************************************************************)
(* SpecConfig: manifest URL resolution with no override hint.  A registry  *)
(* is built from a short list of descriptors, with and without prodPath;   *)
(* the shell's Vite config is evaluated in a build mode, and the page of a *)
(* production or development build initialises the dynamic loader.         *)
(***************************************************************************)
ConfigDescriptors ==
    {MfeConfig(n, S_slash \o n, p, IF hasProdPath THEN Some(S_cdn \o S_slash \o n) ELSE Undefined) :
        n \in {S_mfe1, S_mfe2}, p \in {3001, 3002}, hasProdPath \in BOOLEAN}

ConfigInit ==
    /\ regInput \in SeqsUpTo(ConfigDescriptors, MaxMfes)
    /\ regPhase = "built"
    /\ regThrew = FALSE
    /\ mfeRegistry = createMfeRegistry(regInput).value
    /\ mfeList = ObjectValues(createMfeRegistry(regInput).value)
    /\ MountInit
    /\ search = <<>>
    /\ storage = NoItem
    /\ isProd \in BOOLEAN
    /\ allowOverrides = FALSE
    /\ initialized = FALSE
    /\ remotes = <<>>
    /\ loaderError = Undefined
    /\ mode \in Modes
    /\ shellConfig = Undefined
    /\ ExtIdle

ConfigNext ==
    \/ EvaluateShellViteConfig
    \/ initMfeDynamicLoader

SpecConfig == ConfigInit /\ [][ConfigNext]_vars

(***************************************************************************)
(* SpecBoundary: ErrorBoundary instances whose children throw values of    *)
(* every JavaScript kind, truthy and falsy, and whose fallback retries.    *)
(***************************************************************************)
BoundarySpecInit ==
    /\ regInput = ShippedMfes
    /\ regPhase = "built"
    /\ regThrew = FALSE
    /\ mfeRegistry = createMfeRegistry(ShippedMfes).value
    /\ mfeList = ObjectValues(createMfeRegistry(ShippedMfes).value)
    /\ MountInit
    /\ OverrideIdle
    /\ BuildIdle
    /\ QueryIdle
    /\ BoundaryInit
    /\ ViteIdle
    /\ PreviewIdle
    /\ HistoryIdle
    /\ DynamicIdle
    /\ UserInit

SpecBoundary == BoundarySpecInit /\ [][BoundaryNext]_vars

(***************************************************************************)
(* SpecVite: createMfeConfig and createShellConfig are called with options *)
(* whose shared object is drawn from short objects over default and other  *)
(* package names, in a production or a development build.                  *)
(***************************************************************************)
SharedNames == {S_react, S_reactDom, S_lodash}

SharedConfigs ==
    {SharedConfig(Some(TRUE), Undefined), SharedConfig(Some(FALSE), Undefined),
     SharedConfig(Undefined, Undefined), SharedConfig(Some(TRUE), Some(TRUE))}

SharedEntries == {<<k, v>> : k \in SharedNames, v \in SharedConfigs}

\* the object literal { k1: v1, k2: v2, ... }
RECURSIVE ObjectLiteral(_, _, _)
ObjectLiteral(acc, entries, i) ==
    IF i > Len(entries) THEN acc
    ELSE ObjectLiteral(ObjSet(acc, entries[i][1], entries[i][2]), entries, i + 1)

SharedOptions == {ObjectLiteral(EmptyObject, e, 1) : e \in SeqsUpTo(SharedEntries, MaxShared)}

ViteOptions ==
    {MfeViteConfig(mfe, shellUrl, shared) :
        mfe \in {Mfe1Config, CheckoutConfig}, shellUrl \in {Undefined, Some(S_cdn)},
        shared \in SharedOptions}
    \cup {ShellViteConfig(shared) : shared \in SharedOptions}

ViteInit ==
    /\ regInput = ShippedMfes
    /\ regPhase = "built"
    /\ regThrew = FALSE
    /\ mfeRegistry = createMfeRegistry(ShippedMfes).value
    /\ mfeList = ObjectValues(createMfeRegistry(ShippedMfes).value)
    /\ MountInit
    /\ OverrideIdle
    /\ mode \in Modes
    /\ shellConfig = Undefined
    /\ QueryIdle
    /\ BoundaryIdle
    /\ PreviewIdle
    /\ HistoryIdle
    /\ DynamicIdle
    /\ UserInit
    /\ viteOptions \in {Some(o) : o \in ViteOptions}
    /\ viteConfig = Undefined

ViteNext ==
    \/ CallCreateMfeConfig
    \/ CallCreateShellConfig

SpecVite == ViteInit /\ [][ViteNext]_vars

(***************************************************************************)
(* SpecUrl: getMfeUrl is called on a page whose query string carries       *)
(* override and preview hints, with or without a persisted override, in a  *)
(* production or a development build.                                      *)
(***************************************************************************)
S_abc123 == <<"a", "b", "c", "1", "2", "3">>
S_featureXyz == <<"f", "e", "a", "t", "u", "r", "e", "-", "x", "y", "z">>

UrlHints ==
    { S_mfe1 \o <<":">> \o S_8888,                \* mfe-override=mfe1:8888
      S_ghost \o <<":">> \o S_3001 }              \* mfe-override=ghost:3001

PreviewHints ==
    { S_mfe1 \o <<":">> \o S_abc123,              \* mfe-preview=mfe1:abc123
      S_mfe1 \o <<":">> \o S_featureXyz,          \* mfe-preview=mfe1:feature-xyz
      S_mfe2 \o <<":">> \o S_abc123,              \* mfe-preview=mfe2:abc123
      S_mfe2 \o <<":">> }                          \* mfe-preview=mfe2:

UrlStoredItems ==
    {NoItem, StoredArray(<<MfeOverride(S_mfe1, S_httpLocalhost \o S_9999)>>),
     StoredArray(<<MfeOverride(S_mfe2, <<>>)>>), StoredText("jsonNull")}

Mfe2WithProdPath ==
    MfeConfig(S_mfe2, S_slash \o S_mfe2, 3002, Some(S_cdn \o S_slash \o S_mfe2))

UrlRegistrations == {<<Mfe1Config, Mfe2WithProdPath>>}

BaseUrls == {<<>>, S_httpLocalhost \o NumToStr(3000)}

UrlInit ==
    /\ regInput \in UrlRegistrations
    /\ regPhase = "built"
    /\ regThrew = FALSE
    /\ mfeRegistry = createMfeRegistry(regInput).value
    /\ mfeList = ObjectValues(createMfeRegistry(regInput).value)
    /\ MountInit
    /\ search \in SeqsUpTo(UrlHints, MaxHints)
    /\ storage \in UrlStoredItems
    /\ isProd \in BOOLEAN
    /\ allowOverrides \in BOOLEAN
    /\ initialized = FALSE
    /\ remotes = <<>>
    /\ loaderError = Undefined
    /\ BuildIdle
    /\ QueryIdle
    /\ BoundaryIdle
    /\ ViteIdle
    /\ previewSearch \in SeqsUpTo(PreviewHints, MaxPreviews)
    /\ HistoryIdle
    /\ DynamicIdle
    /\ UserInit

UrlNext ==
    \E i \in DOMAIN mfeList, baseUrl \in BaseUrls :
        CallGetMfeUrl(mfeList[i].name, mfeList[i], baseUrl)

SpecUrl == UrlInit /\ [][UrlNext]_vars

(***************************************************************************)
(* SpecStorage: a dev-tools session that calls setMfeOverride,             *)
(* clearMfeOverride and clearAllOverrides in any order, starting with no   *)
(* 'mfe-overrides' item in localStorage.                                   *)
(***************************************************************************)
StorageUrls == {S_8888, S_httpLocalhost \o S_9999}

StorageInit ==
    /\ regInput = ShippedMfes
    /\ regPhase = "built"
    /\ regThrew = FALSE
    /\ mfeRegistry = createMfeRegistry(ShippedMfes).value
    /\ mfeList = ObjectValues(createMfeRegistry(ShippedMfes).value)
    /\ MountInit
    /\ OverrideIdle
    /\ BuildIdle
    /\ ExtIdle

StorageNext ==
    \/ \E name \in StorageNames, url \in StorageUrls : setMfeOverride(name, url)
    \/ \E name \in StorageNames : clearMfeOverride(name)
    \/ clearAllOverrides

SpecStorage == StorageInit /\ [][StorageNext]_vars

(***************************************************************************)
(* SpecDynamic: a page session of the shell with dynamic loading.  The     *)
(* page loads with some override hints, the loader is initialised, and     *)
(* then the user navigates (the hints of the query string change) and MFE  *)
(* routes are rendered.                                                    *)
(***************************************************************************)
DynamicHints ==
    { S_mfe1 \o <<":">> \o S_8888,                \* mfe-override=mfe1:8888
      S_mfe1 \o <<":">> \o S_9999,                \* mfe-override=mfe1:9999
      S_mfe2 \o <<":">> \o S_8888 }               \* mfe-override=mfe2:8888

DynamicInit ==
    /\ regInput = ShippedMfes
    /\ regPhase = "built"
    /\ regThrew = FALSE
    /\ mfeRegistry = createMfeRegistry(ShippedMfes).value
    /\ mfeList = ObjectValues(createMfeRegistry(ShippedMfes).value)
    /\ MountInit
    /\ search \in SeqsUpTo(DynamicHints, MaxHints)
    /\ storage = NoItem
    /\ isProd \in BOOLEAN
    /\ allowOverrides \in BOOLEAN
    /\ initialized = FALSE
    /\ remotes = <<>>
    /\ loaderError = Undefined
    /\ BuildIdle
    /\ ExtIdle

DynamicNext ==
    \/ initMfeDynamicLoader
    \/ \E values \in SeqsUpTo(DynamicHints, MaxHints) : Navigate(values)
    \/ \E i \in DOMAIN mfeList : getDynamicMfeComponent(mfeList[i].name)

SpecDynamic == DynamicInit /\ [][DynamicNext]_vars

(***************************************************************************)
(* SpecUser: the shell's user context, starting logged in as the mock      *)
(* user; consumers call login, logout and updateUser in any order, and     *)
(* React renders the provider after one or more of the calls.              *)
(***************************************************************************)
OTHER_USER ==
    User(Some("2"), Some("Jane Roe"), Some("jane@example.com"), Some("viewer"), Undefined)

LoginUsers == {MOCK_USER, OTHER_USER}

UserUpdates ==
    { User(Undefined, Some("Jane Roe"), Undefined, Undefined, Undefined),
      User(Undefined, Undefined, Undefined, Some("editor"), Undefined),
      User(Undefined, Some("J. Doe"), Some("jd@example.com"), Undefined, Undefined),
      User(Undefined, Undefined, Undefined, Undefined, Undefined) }

UserSpecInit ==
    /\ regInput = ShippedMfes
    /\ regPhase = "built"
    /\ regThrew = FALSE
    /\ mfeRegistry = createMfeRegistry(ShippedMfes).value
    /\ mfeList = ObjectValues(createMfeRegistry(ShippedMfes).value)
    /\ MountInit
    /\ OverrideIdle
    /\ BuildIdle
    /\ ExtIdle

UserNext ==
    \/ \E newUser \in LoginUsers : login(newUser)
    \/ logout
    \/ \E updates \in UserUpdates : updateUser(updates)
    \/ RenderUserProvider

SpecUser == UserSpecInit /\ [][UserNext]_vars


HasDuplicate(mfes) ==
    \E i, j \in DOMAIN mfes :
        i # j /\ (mfes[i].name = mfes[j].name \/ mfes[i].routePath = mfes[j].routePath)

(***************************************************************************)
(* C1: building the registry from a list in which a name or a routePath    *)
(* occurs more than once always fails with a validation error, and no      *)
(* registry, not even a partial one, is observable afterwards.             *)
(***************************************************************************)
C1_DuplicateRegistrationFails ==
    (regPhase = "built" /\ HasDuplicate(regInput))
        => (regThrew /\ mfeRegistry = EmptyObject /\ mfeList = <<>>)

(***************************************************************************)
(* The states of a remote mount as the reader of the page sees them.       *)
(***************************************************************************)
\* failed: the region shows the fallback for its own remote's rejected load
IsFailed(m) ==
    /\ IsMounted(m)
    /\ m.shown = "fallback"
    /\ CacheHas(mfeComponentCache, MountedName(m))
    /\ mfeComponentCache[MountedName(m)].status = "rejected"
    /\ m.error = mfeComponentCache[MountedName(m)].result

(***************************************************************************)
(* C2: from the failed state of a remote mount, retry moves the mount to   *)
(* loading: a new load attempt for the remote is started, and the mount    *)
(* does not return to failed without a new attempt having been made.       *)
(***************************************************************************)
C2_RetryStartsNewLoad ==
    \A s \in Mounts :
        IsFailed(mounts[s])
            => ENABLED (/\ Retry(s)
                        /\ mounts'[s].shown = "spinner"
                        /\ loadCalls'[MountedName(mounts[s])]
                               = loadCalls[MountedName(mounts[s])] + 1)

(***************************************************************************)
(* C3: for any interleaving of mount requests the loader of a remote name  *)
(* runs at most once in a page session, so at most one fetch per name is   *)
(* ever in flight, and every region that renders the remote shows the      *)
(* state of that one load: the spinner while it is pending, the remote's   *)
(* App once it has resolved.                                               *)
(***************************************************************************)
C3_SingleFetchPerRemote ==
    \A n \in AllNames :
        /\ loadCalls[n] <= 1
        /\ \A s \in Mounts :
              (Shows(mounts[s], n) /\ ~RendersFallback(mounts[s]))
                  => /\ loadCalls[n] = 1
                     /\ mfeComponentCache[n].status \in {"pending", "resolved"}
                     /\ mounts[s].shown =
                            IF mfeComponentCache[n].status = "pending" THEN "spinner" ELSE "app"

\* two regions mounted the same remote while its load was outstanding, one
\* load call was made, and both show its result
C3_Witness ==
    \E n \in AllNames :
        /\ loadCalls[n] = 1
        /\ mfeComponentCache[n].status = "resolved"
        /\ \A s \in Mounts : Shows(mounts[s], n) /\ mounts[s].shown = "app"

(***************************************************************************)
(* C4: when one remote's load fails, only that remote's mount region shows *)
(* the error state: in every reachable state a region that shows the       *)
(* error fallback does so for the rejected load of the remote it is        *)
(* mounted on, also when that remote was navigated to after the failure.   *)
(***************************************************************************)
C4_FailureIsolated ==
    \A s \in Mounts :
        (IsMounted(mounts[s]) /\ mounts[s].shown = "fallback") => IsFailed(mounts[s])

(***************************************************************************)
(* C5: when an import settles (fulfilled or rejected) after the user has   *)
(* navigated away, no region that is not rendering that remote changes:    *)
(* no view state is updated and no error becomes visible because of it.    *)
(***************************************************************************)
C5_LateResultNotApplied ==
    [][\A n \in AllNames :
          (/\ CacheHas(mfeComponentCache, n)
           /\ mfeComponentCache[n].status = "pending"
           /\ mfeComponentCache'[n].status \in {"resolved", "rejected"})
              => \A s \in Mounts : ~Shows(mounts[s], n) => mounts'[s] = mounts[s]]_vars

\* a load was rejected while no region showed its remote, and the regions
\* show another remote or nothing, none of them an error
C5_Witness ==
    \E n \in lateSettled :
        /\ mfeComponentCache[n].status = "rejected"
        /\ \E s \in Mounts : IsMounted(mounts[s]) /\ ~Shows(mounts[s], n)
        /\ \A s \in Mounts : ~Shows(mounts[s], n) /\ mounts[s].shown # "fallback"

(***************************************************************************)
(* C6: for every MFE present in the registry, also one newly added under a *)
(* new name, mounting its generated route starts a load of that MFE's own  *)
(* remote module <name>/App; no registered name ends in the 'Unknown MFE'  *)
(* rejection.                                                              *)
(***************************************************************************)
C6_RegisteredNameLoadsOwnRemote ==
    \A s \in Mounts :
        (IsMounted(mounts[s]) /\ hasMfe(MountedName(mounts[s])) /\ ~RendersFallback(mounts[s]))
            => LET lz == mfeComponentCache[MountedName(mounts[s])]
               IN  /\ lz.status # "uninitialized"
                   /\ lz.module = Some(MountedName(mounts[s]) \o S_App)

(***************************************************************************)
(* Reading a list of {name, url} records and a raw hint, for the claims.   *)
(***************************************************************************)
HasEntry(list, name) == \E i \in DOMAIN list : list[i].name = name

LastUrlFor(list, name) ==
    LET last == CHOOSE i \in DOMAIN list :
                    /\ list[i].name = name
                    /\ \A j \in DOMAIN list : list[j].name = name => j <= i
    IN  list[last].url

\* the place of the first ':' of a hint, 0 when it has none
RECURSIVE FirstColonFrom(_, _)
FirstColonFrom(value, i) ==
    IF i > Len(value) THEN 0
    ELSE IF value[i] = ":" THEN i
    ELSE FirstColonFrom(value, i + 1)

FirstColon(value) == FirstColonFrom(value, 1)

HintName(value) == SubSeq(value, 1, FirstColon(value) - 1)
HintLocation(value) == SubSeq(value, FirstColon(value) + 1, Len(value))

OverrideNames == {S_mfe1, S_mfe2, S_ghost}

EntryOf(rs, name) == rs[CHOOSE i \in DOMAIN rs : rs[i].name = name].entry

HintedOverrides ==
    MergeOverrides(parseOverridesFromStorage(storage), parseOverridesFromUrl(search)).value

OverrideExists(name) ==
    MapHas(HintedOverrides, name) /\ MapGet(HintedOverrides, name)[1] # <<>>

(***************************************************************************)
(* C8, as claimed: whenever an override exists for a registered remote     *)
(* name, the resolved manifest URL is <override>/mf-manifest.json, in      *)
(* production as well as in development.                                   *)
(***************************************************************************)
C8_OverrideAlwaysWins ==
    initialized =>
        \A i \in DOMAIN remotes :
            OverrideExists(remotes[i].name)
                => remotes[i].entry = MapGet(HintedOverrides, remotes[i].name)[1] \o S_manifest

(***************************************************************************)
(* C8, amended: whenever an override exists for a registered remote name   *)
(* and overrides are enabled (the build is not a production build, or      *)
(* VITE_ALLOW_MFE_OVERRIDES is set), the resolved manifest URL is          *)
(* <override>/mf-manifest.json: the override is checked before the default *)
(* rule and wins over it.                                                  *)
(***************************************************************************)
C8_EnabledOverrideWins ==
    initialized =>
        \A i \in DOMAIN remotes :
            (OverrideExists(remotes[i].name) /\ (~isProd \/ allowOverrides))
                => remotes[i].entry = MapGet(HintedOverrides, remotes[i].name)[1] \o S_manifest

\* a production build with VITE_ALLOW_MFE_OVERRIDES: the hint mfe1:8888 wins
\* over the production rule
C8_Witness ==
    /\ initialized
    /\ isProd
    /\ allowOverrides
    /\ search = <<S_mfe1 \o <<":">> \o S_8888>>
    /\ EntryOf(remotes, S_mfe1) = S_httpLocalhost \o S_8888 \o S_manifest

(***************************************************************************)
(* C9: in a production build where VITE_ALLOW_MFE_OVERRIDES is not set,    *)
(* getMfeOverrides returns an empty map, and the manifest URL of every     *)
(* remote is the one a run with no hints at all resolves: no query-string  *)
(* or persisted hint changes it.                                           *)
(***************************************************************************)
C9_ProductionIgnoresHints ==
    (isProd /\ ~allowOverrides)
        => /\ getMfeOverrides(search, storage, isProd, allowOverrides) = Return(EmptyMap)
           /\ initialized
                => /\ remotes = Remotes(mfeRegistry,
                                        getMfeOverrides(<<>>, NoItem, isProd, allowOverrides).value,
                                        BaseUrl(isProd))
                   /\ \A i \in DOMAIN remotes :
                         remotes[i].entry = mfeList[i].routePath \o S_manifest

\* a production build without the flag, loaded with a session hint and a
\* persisted override for mfe1: mfe1 still resolves to /mfe1/mf-manifest.json
C9_Witness ==
    /\ initialized
    /\ isProd
    /\ ~allowOverrides
    /\ HasEntry(parseOverridesFromUrl(search), S_mfe1)
    /\ HasEntry(parseOverridesFromStorage(storage).items, S_mfe1)
    /\ EntryOf(remotes, S_mfe1) = S_slash \o S_mfe1 \o S_manifest

(***************************************************************************)
(* C10: a session hint <name>:<location> whose location contains further   *)
(* colons (mfe1:http://localhost:3001, mfe1:localhost:3001) yields an      *)
(* override for <name> whose target is the whole location after the first  *)
(* colon.                                                                  *)
(***************************************************************************)
C10_LocationAfterFirstColon ==
    initialized => \A i \in DOMAIN search :
        LET value == search[i]
        IN  (/\ FirstColon(value) > 1
             /\ FirstColon(value) < Len(value)
             /\ \E k \in DOMAIN HintLocation(value) : HintLocation(value)[k] = ":")
                => parseOverridesFromUrl(<<value>>)
                       = <<MfeOverride(HintName(value), NormalizeUrl(HintLocation(value)))>>

(***************************************************************************)
(* The normalization the claims describe.  A value has a URL scheme when   *)
(* it starts with a letter followed by letters, digits, '+', '-' or '.',   *)
(* up to a ':' (RFC 3986).                                                 *)
(***************************************************************************)
Letters ==
    {"a", "b", "c", "d", "e", "f", "g", "h", "i", "j", "k", "l", "m",
     "n", "o", "p", "q", "r", "s", "t", "u", "v", "w", "x", "y", "z"}

HasUrlScheme(raw) ==
    /\ FirstColon(raw) > 1
    /\ raw[1] \in Letters
    /\ \A i \in 1 .. (FirstColon(raw) - 1) : raw[i] \in Letters \cup Digits \cup {"+", "-", "."}

NormalizedLocation(raw) ==
    IF MatchesDigits(raw) THEN S_httpLocalhost \o raw
    ELSE IF HasUrlScheme(raw) THEN raw
    ELSE S_scheme \o raw

\* the raw value parseOverridesFromUrl hands to its normalization
RawValueOf(value) == ElementAt(Split(value, S_colon), 2)

(***************************************************************************)
(* C11: normalizing a raw override value gives http://localhost:<value>    *)
(* when the value is purely numeric, the value unchanged when it already   *)
(* has a URL scheme, and http:// + value in every other case.              *)
(***************************************************************************)
C11_NormalizeRawValue ==
    initialized => \A i \in DOMAIN search :
        LET parsed == parseOverridesFromUrl(<<search[i]>>)
        IN  parsed # <<>> => parsed[1].url = NormalizedLocation(RawValueOf(search[i])[1])

(***************************************************************************)
(* C12: a persisted override entry is normalized like a session hint: for  *)
(* a registered name with no session hint, with overrides enabled, the     *)
(* remote resolves to the normalized form of the persisted raw value       *)
(* (persisted "9999" resolves to http://localhost:9999).                   *)
(***************************************************************************)
C12_PersistedNormalized ==
    (initialized /\ (~isProd \/ allowOverrides)) =>
        \A i \in DOMAIN remotes :
            LET name == remotes[i].name
                persisted == parseOverridesFromStorage(storage).items
            IN  (/\ ~HasEntry(parseOverridesFromUrl(search), name)
                 /\ HasEntry(persisted, name)
                 /\ LastUrlFor(persisted, name) # <<>>)
                    => remotes[i].entry
                           = NormalizeUrl(LastUrlFor(persisted, name)) \o S_manifest

(***************************************************************************)
(* C13: override resolution never throws on malformed persisted state: a   *)
(* stored value that is not a well-formed JSON array of {name, url}        *)
(* records (invalid JSON, or the JSON of null, a number or an object) is   *)
(* treated as an empty set of persisted hints, so the result is the one    *)
(* of a page load with nothing stored.                                     *)
(***************************************************************************)
C13_MalformedStorageIsEmpty ==
    /\ ~IsDefined(loaderError)
    /\ (initialized /\ storage \in MalformedItems)
          => remotes = Remotes(mfeRegistry,
                               getMfeOverrides(search, NoItem, isProd, allowOverrides).value,
                               BaseUrl(isProd))

(***************************************************************************)
(* A session hint is malformed when its name or its value segment is       *)
(* missing: it has no colon, nothing before the first colon, or nothing    *)
(* after it.                                                               *)
(***************************************************************************)
IsMalformedHint(value) == FirstColon(value) \in {0, 1, Len(value)}

IsWellFormedHint(value) == ~IsMalformedHint(value)

(***************************************************************************)
(* C14: a session hint with a missing name or value segment is skipped: it *)
(* raises no error, produces no override for any name, and every other     *)
(* well-formed hint of the same query string still takes effect, so the    *)
(* loader is initialised exactly as for the query string without the       *)
(* malformed hints.                                                        *)
(***************************************************************************)
C14_MalformedHintSkipped ==
    LET wellFormed == SelectSeq(search, IsWellFormedHint)
    IN  /\ IsIterable(parseOverridesFromStorage(storage)) => ~IsDefined(loaderError)
        /\ initialized
              => /\ \A i \in DOMAIN search :
                       IsMalformedHint(search[i])
                           => parseOverridesFromUrl(<<search[i]>>) = <<>>
                 /\ parseOverridesFromUrl(search) = parseOverridesFromUrl(wellFormed)
                 /\ remotes = Remotes(mfeRegistry,
                                      getMfeOverrides(wellFormed, storage, isProd,
                                                      allowOverrides).value,
                                      BaseUrl(isProd))

\* the query string ?mfe-override=mfe1&mfe-override=mfe2:foo.test in a
\* development build: mfe1 keeps its default URL, mfe2 is loaded from foo.test
C14_Witness ==
    /\ initialized
    /\ ~isProd
    /\ storage = NoItem
    /\ search = <<S_mfe1, S_mfe2 \o <<":">> \o S_fooTest>>
    /\ EntryOf(remotes, S_mfe1) = BaseUrl(FALSE) \o S_slash \o S_mfe1 \o S_manifest
    /\ EntryOf(remotes, S_mfe2) = S_scheme \o S_fooTest \o S_manifest

(***************************************************************************)
(* Reading the resolved manifest URLs of a registered descriptor.          *)
(***************************************************************************)
BuildEntryOf(name) == ObjGet(shellConfig[1].remotes, name)[1].entry

S_mfe1Manifest ==
    <<"/", "m", "f", "e", "1", "/", "m", "f", "-", "m", "a", "n", "i", "f", "e", "s", "t",
      ".", "j", "s", "o", "n">>

(***************************************************************************)
(* C15: with no override, production resolution of a registered remote     *)
(* yields <base origin><prodPath if set, else routePath>/mf-manifest.json, *)
(* in the build configuration and in the dynamic loader (base origin "");  *)
(* for {name mfe1, routePath /mfe1, no prodPath} it is                     *)
(* /mfe1/mf-manifest.json.                                                 *)
(***************************************************************************)
C15_ProductionResolution ==
    \A i \in DOMAIN mfeList :
        LET d == mfeList[i]
            expected == (IF IsDefined(d.prodPath) THEN d.prodPath[1] ELSE d.routePath)
                            \o S_manifest
        IN  /\ (IsDefined(shellConfig) /\ mode = "production")
                  => /\ BuildEntryOf(d.name) = expected
                     /\ (d.name = S_mfe1 /\ d.routePath = S_slash \o S_mfe1
                             /\ ~IsDefined(d.prodPath))
                           => BuildEntryOf(d.name) = S_mfe1Manifest
            /\ (initialized /\ isProd)
                  => /\ EntryOf(remotes, d.name) = expected
                     /\ (d.name = S_mfe1 /\ d.routePath = S_slash \o S_mfe1
                             /\ ~IsDefined(d.prodPath))
                           => EntryOf(remotes, d.name) = S_mfe1Manifest

\* a production build of a registry holding mfe1 without prodPath and mfe2
\* with one: both resolvers give /mfe1/mf-manifest.json and
\* /cdn/mfe2/mf-manifest.json
C15_Witness ==
    /\ IsDefined(shellConfig)
    /\ mode = "production"
    /\ initialized
    /\ isProd
    /\ Len(mfeList) = 2
    /\ mfeList[1].name = S_mfe1
    /\ ~IsDefined(mfeList[1].prodPath)
    /\ IsDefined(mfeList[2].prodPath)
    /\ BuildEntryOf(S_mfe1) = S_mfe1Manifest
    /\ EntryOf(remotes, S_mfe1) = S_mfe1Manifest
    /\ BuildEntryOf(S_mfe2) = S_cdn \o S_slash \o S_mfe2 \o S_manifest
    /\ EntryOf(remotes, S_mfe2) = S_cdn \o S_slash \o S_mfe2 \o S_manifest

(***************************************************************************)
(* C16: with no override, development (non-production) resolution of a     *)
(* registered remote yields http://localhost:<devPort>/mf-manifest.json,   *)
(* whatever its routePath and prodPath, in the build configuration and in  *)
(* the dynamic loader.                                                     *)
(***************************************************************************)
C16_DevelopmentResolution ==
    \A i \in DOMAIN mfeList :
        LET d == mfeList[i]
            expected == S_httpLocalhost \o NumToStr(d.devPort) \o S_manifest
        IN  /\ (IsDefined(shellConfig) /\ mode # "production")
                  => BuildEntryOf(d.name) = expected
            /\ (initialized /\ ~isProd)
                  => EntryOf(remotes, d.name) = expected

C18_LookupReturnsDescriptor ==
    (regPhase = "built" /\ ~HasDuplicate(regInput))
        => /\ ~regThrew
           /\ \A i \in DOMAIN regInput :
                 /\ getMfe(regInput[i].name) = Some(regInput[i])
                 /\ hasMfe(regInput[i].name)

\* a registry built from two descriptors with different names and route
\* paths: each is found under its name
C18_Witness ==
    /\ regPhase = "built"
    /\ Len(regInput) = 2
    /\ ~HasDuplicate(regInput)
    /\ regInput[1] # regInput[2]
    /\ getMfe(regInput[2].name) = Some(regInput[2])
    /\ getMfe(regInput[1].name) = Some(regInput[1])

(***************************************************************************)
(* C19: for every registration list with unique names and route paths,     *)
(* mfeList and getMfeNames enumerate the descriptors in exactly the order  *)
(* they were passed to registration, and enumerating again gives the same  *)
(* order.                                                                  *)
(***************************************************************************)
C19_EnumerationKeepsInputOrder ==
    (regPhase = "built" /\ ~HasDuplicate(regInput))
        => /\ mfeList = regInput
           /\ getMfeNames = [i \in DOMAIN regInput |-> regInput[i].name]
           /\ ObjectValues(mfeRegistry) = mfeList

(***************************************************************************)
(* C20: the route binder produces exactly one route per registered         *)
(* descriptor, with match path routePath + "/*", and the component mounted *)
(* for that route receives the descriptor's routePath as its basePath.     *)
(***************************************************************************)
C20_OneRoutePerDescriptor ==
    LET routes == generateMfeRoutes(mfeList)
    IN  /\ Len(routes) = Len(getMfeNames)
        /\ \A i \in DOMAIN getMfeNames :
              LET d == getMfe(getMfeNames[i])[1]
              IN  /\ Cardinality({r \in DOMAIN routes : routes[r].element.mfe = d}) = 1
                  /\ routes[i].element.mfe = d
                  /\ routes[i].path = d.routePath \o <<"/", "*">>
        /\ \A s \in Mounts :
              (IsMounted(mounts[s]) /\ hasMfe(MountedName(mounts[s]))
                   /\ mounts[s].shown \in {"spinner", "app"})
                  => mounts[s].basePath
                         = Some(getMfe(MountedName(mounts[s]))[1].routePath)

\* the route /mfe2/* was navigated to and its region shows mfe2's App, which
\* was given basePath /mfe2
C20_Witness ==
    \E s \in Mounts :
        /\ Shows(mounts[s], S_mfe2)
        /\ mounts[s].shown = "app"
        /\ mounts[s].basePath = Some(S_slash \o S_mfe2)


(***************************************************************************)
(* getNextAvailablePort.                                                   *)
(***************************************************************************)
IsNextPortCall == IsDefined(lastCall) /\ lastCall[1].fn = "getNextAvailablePort"

RegisteredPorts == {mfeList[i].devPort : i \in DOMAIN mfeList}

\* C21 as stated: getNextAvailablePort returns one more than the largest
\* registered devPort, and the floor 3000 when nothing is registered.
C21_NextPortIsMaxPlusOne ==
    IsNextPortCall =>
        IF RegisteredPorts = {}
        THEN lastCall[1].result = 3000
        ELSE /\ lastCall[1].result - 1 \in RegisteredPorts
             /\ \A p \in RegisteredPorts : p <= lastCall[1].result - 1

\* C21: getNextAvailablePort returns one more than the largest of 3000 and
\* every registered devPort: 3001 when nothing is registered or every
\* registered port is below 3000, the largest registered port plus one
\* otherwise.
C21_NextPortAboveFloorAndPorts ==
    IsNextPortCall =>
        /\ lastCall[1].result - 1 \in RegisteredPorts \cup {3000}
        /\ \A p \in RegisteredPorts \cup {3000} : p <= lastCall[1].result - 1

C21_Witness ==
    /\ IsNextPortCall
    /\ RegisteredPorts = {2999, 3002}
    /\ lastCall[1].result = 3003

(***************************************************************************)
(* The registry after construction.                                        *)
(***************************************************************************)
\* C24: once the registry module is evaluated, no call of getMfe,
\* getMfeNames, hasMfe or getNextAvailablePort, no route generation and no
\* manifest resolution changes mfeRegistry or mfeList, and mfeList holds
\* exactly the descriptors of mfeRegistry, key by key in key order.
C24_RegistryImmutable ==
    /\ [](regPhase = "built" =>
            /\ Len(mfeList) = Len(mfeRegistry.keys)
            /\ \A i \in DOMAIN mfeList :
                    /\ mfeList[i] = mfeRegistry.val[i]
                    /\ mfeList[i].name = mfeRegistry.keys[i])
    /\ [][regPhase = "built" => UNCHANGED <<mfeRegistry, mfeList>>]_vars

C24_Witness ==
    /\ regPhase = "built"
    /\ Len(mfeList) = 2
    /\ initialized
    /\ IsDefined(lastCall)
    /\ lastCall[1].fn = "generateMfeRoutes"

(***************************************************************************)
(* Overrides that name no registered remote.                               *)
(***************************************************************************)
RegisteredNames == Range(ObjectKeys(mfeRegistry))

HintsOfRegistered(values) ==
    SelectSeq(values, LAMBDA v : HintName(v) \in RegisteredNames)

StoredOfRegistered(item) ==
    [item EXCEPT !.records = SelectSeq(@, LAMBDA r : r.name \in RegisteredNames)]

NamesUnregistered ==
    \/ \E i \in DOMAIN search :
            IsWellFormedHint(search[i]) /\ HintName(search[i]) \notin RegisteredNames
    \/ \E i \in DOMAIN storage.records : storage.records[i].name \notin RegisteredNames

\* C22: an override, in the query string or persisted, whose name is not in
\* the registry is inert: the loader is initialised with one remote per
\* registered name, each with the URL it has when those overrides are
\* absent, and no error is raised that is not raised without them.
C22_UnregisteredOverrideInert ==
    (initialized \/ IsDefined(loaderError)) =>
        LET without == getMfeOverrides(HintsOfRegistered(search), StoredOfRegistered(storage),
                                       isProd, allowOverrides)
        IN  /\ IsDefined(loaderError) <=> without.threw
            /\ initialized =>
                  /\ [i \in DOMAIN remotes |-> remotes[i].name] = ObjectKeys(mfeRegistry)
                  /\ remotes = Remotes(mfeRegistry, without.value, BaseUrl(isProd))

\* a development page load with ?mfe-override=ghost:3001 and a persisted
\* ghost record: both remotes resolve to their default URLs
C22_Witness ==
    /\ initialized
    /\ ~isProd
    /\ search = <<S_ghost \o <<":">> \o S_3001>>
    /\ storage = StoredArray(<<MfeOverride(S_ghost, S_9999)>>)
    /\ NamesUnregistered
    /\ \A i \in DOMAIN remotes :
          remotes[i].entry = S_httpLocalhost \o NumToStr(3000) \o S_slash \o remotes[i].name
                                \o S_manifest

(***************************************************************************)
(* The component cache over a page session.                                *)
(***************************************************************************)
StatusRank(status) ==
    CASE status = "uninitialized" -> 0
      [] status = "pending" -> 1
      [] OTHER -> 2

\* C23: the cache is append-only and a settled load is final.  In every
\* step of a page session (mount, navigation, unmount, settle, retry) an
\* entry of mfeComponentCache stays in the cache and never goes back to an
\* earlier stage of its load, and once a remote's load has resolved its
\* entry stays as it is and no further load of that remote is started.
C23_ReadyIsTerminal ==
    [][\A n \in AllNames :
          CacheHas(mfeComponentCache, n) =>
             /\ CacheHas(mfeComponentCache', n)
             /\ StatusRank(mfeComponentCache'[n].status) >= StatusRank(mfeComponentCache[n].status)
             /\ StatusRank(mfeComponentCache[n].status) = 2
                    => mfeComponentCache'[n] = mfeComponentCache[n]
             /\ mfeComponentCache[n].status = "resolved" => loadCalls'[n] = loadCalls[n]
      ]_vars

\* one remote's load resolved and another's was rejected; a region shows the
\* resolved remote's App, from the one load that was ever started for it
C23_Witness ==
    \E n \in AllNames, k \in AllNames, s \in Mounts :
        /\ n # k
        /\ CacheHas(mfeComponentCache, n) /\ CacheHas(mfeComponentCache, k)
        /\ mfeComponentCache[n].status = "resolved"
        /\ mfeComponentCache[k].status = "rejected"
        /\ loadCalls[n] = 1
        /\ Shows(mounts[s], n)
        /\ mounts[s].shown = "app"

(***************************************************************************)
(* C27: an ErrorBoundary renders its fallback exactly when hasError is     *)
(* true: after a child threw, whatever the thrown value, the fallback is   *)
(* what the boundary renders until retry, and after retry it renders its   *)
(* children again.                                                         *)
(***************************************************************************)
C27_FallbackIffHasError ==
    \A b \in DOMAIN boundaries :
        boundaries[b].state.hasError <=> boundaries[b].output = "fallback"

(***************************************************************************)
(* C26: in every configuration createMfeConfig or createShellConfig        *)
(* returns, whatever the options, each default shared dependency (react,   *)
(* react-dom, react-router-dom, @cloudscape-design/components,             *)
(* @cloudscape-design/global-styles) is a key of shared and its entry has  *)
(* singleton: true.                                                        *)
(***************************************************************************)
DefaultSharedNames ==
    {S_react, S_reactDom, S_reactRouterDom, S_cloudscapeComponents, S_cloudscapeGlobalStyles}

C26_DefaultsSharedAsSingletons ==
    IsDefined(viteConfig) =>
        \A d \in DefaultSharedNames :
            \E i \in DOMAIN viteConfig[1].shared.keys :
                /\ viteConfig[1].shared.keys[i] = d
                /\ viteConfig[1].shared.val[i].singleton = Some(TRUE)

(***************************************************************************)
(* getMfeUrl: override, then preview, then production.                     *)
(***************************************************************************)
IsUrlCall == IsDefined(lastCall) /\ lastCall[1].fn = "getMfeUrl"

\* a hint or persisted record naming the remote, and the url the merge keeps
HasOverrideFor(name) ==
    \/ HasEntry(parseOverridesFromUrl(search), name)
    \/ HasEntry(parseOverridesFromStorage(storage).items, name)

OverrideUrlFor(name) ==
    IF HasEntry(parseOverridesFromUrl(search), name)
    THEN LastUrlFor(parseOverridesFromUrl(search), name)
    ELSE LastUrlFor(parseOverridesFromStorage(storage).items, name)

\* the mfe-preview hints <name>:<version> of the query string, in order
PreviewVersionsFor(name) ==
    LET hits == SelectSeq(previewSearch,
                          LAMBDA v : /\ FirstColon(v) > 0
                                     /\ HintName(v) = name
                                     /\ HintLocation(v) # <<>>)
    IN  [i \in DOMAIN hits |-> HintLocation(hits[i])]

ExpectedMfeUrl(overridden, name, config, baseUrl) ==
    IF overridden THEN OverrideUrlFor(name)
    ELSE IF PreviewVersionsFor(name) # <<>>
    THEN baseUrl \o S_previewPath \o name \o S_slash \o PreviewVersionsFor(name)[1]
    ELSE baseUrl \o (IF IsDefined(config.prodPath) THEN config.prodPath[1] ELSE config.routePath)

PersistedFor(item, name) ==
    SelectSeq(parseOverridesFromStorage(item).items, LAMBDA o : o.name = name)

\* C29: after any sequence of setMfeOverride, clearMfeOverride and
\* clearAllOverrides from empty storage, the persisted list holds for each
\* name exactly one record with the url of the latest setMfeOverride of that
\* name not followed by a clear of it, and no record when there is none; a
\* set or clear of one name leaves the records of every other name as they
\* were.
C29_PersistedIsLatestSet ==
    /\ [](\A n \in StorageNames :
            PersistedFor(storage, n) =
                IF IsDefined(latestSet[n]) THEN <<MfeOverride(n, latestSet[n][1])>> ELSE <<>>)
    /\ [][\A n \in StorageNames :
            (lastCall'[1].fn \in {"setMfeOverride", "clearMfeOverride"} /\ lastCall'[1].arg # n)
                => PersistedFor(storage', n) = PersistedFor(storage, n)]_vars

\* mfe1 was set twice and mfe2 set and cleared: one record, mfe1's second url
C29_Witness ==
    /\ latestSet[S_mfe1] = Some(S_httpLocalhost \o S_9999)
    /\ latestSet[S_mfe2] = Undefined
    /\ storage = StoredArray(<<MfeOverride(S_mfe1, S_httpLocalhost \o S_9999)>>)
    /\ IsDefined(lastCall)
    /\ lastCall[1] = Call("clearMfeOverride", S_mfe2, <<>>)

(***************************************************************************)
(* The dynamic loader's cache.                                             *)
(***************************************************************************)
RECURSIVE FirstAtFrom(_, _)
FirstAtFrom(key, i) ==
    IF i > Len(key) THEN 0
    ELSE IF key[i] = "@" THEN i
    ELSE FirstAtFrom(key, i + 1)

\* the <overrideUrl> of a key <name>@<overrideUrl>
KeyOverrideUrl(key) == SubSeq(key, FirstAtFrom(key, 1) + 1, Len(key))

KeyName(key) ==
    IF FirstAtFrom(key, 1) = 0 THEN key ELSE SubSeq(key, 1, FirstAtFrom(key, 1) - 1)

DefaultManifest(name) ==
    LET config == mfeRegistry.val[CHOOSE i \in DOMAIN mfeRegistry.keys :
                                     mfeRegistry.keys[i] = name]
    IN  (IF isProd THEN <<>> ELSE S_httpLocalhost \o NumToStr(3000))
            \o (IF IsDefined(config.prodPath) THEN config.prodPath[1] ELSE config.routePath)
            \o S_manifest

\* C28: every component the dynamic loader's cache holds under a key
\* <name>@<overrideUrl> is loaded from the manifest at <overrideUrl>, and one
\* held under the plain key <name> is loaded from the default manifest URL
\* of the remote, whatever hints the navigations after initMfeDynamicLoader
\* added, changed or removed.
C28_CacheKeyNamesManifest ==
    \A key \in DOMAIN dynamicCache :
        dynamicCache[key].manifest =
            IF FirstAtFrom(key, 1) > 0
            THEN Some(KeyOverrideUrl(key) \o S_manifest)
            ELSE Some(DefaultManifest(KeyName(key)))

(***************************************************************************)
(* The user context.                                                       *)
(***************************************************************************)
NoSetValuePending ==
    \A i \in DOMAIN userProvider.pending : userProvider.pending[i].kind = "updater"

\* the value the latest pending updateUser that supplies the field gives it
LastSupplied(pending, f) ==
    pending[CHOOSE i \in DOMAIN pending :
                /\ IsDefined(pending[i].updates[f])
                /\ \A j \in DOMAIN pending : IsDefined(pending[j].updates[f]) => j <= i].updates[f]

\* C30: from the mock user's session on, once logout has been rendered the
\* context's user is null and isAuthenticated is false, and stays so through
\* any updateUser calls until the next login; a render that applies only
\* updateUser calls to a logged-in user gives every supplied field its
\* latest supplied value and leaves every other field of the user as it was.
C30_LogoutHoldsUntilLogin ==
    /\ []((userHistory.loggedOut /\ NoSetValuePending) =>
            /\ userProvider.user = Undefined
            /\ userContextValue = [user |-> Undefined, isAuthenticated |-> FALSE])
    /\ []((userContextValue.isAuthenticated <=> IsDefined(userContextValue.user))
            /\ (userProvider.pending = <<>> => userContextValue.user = userProvider.user))
    /\ [][(userProvider.pending # <<>> /\ userProvider'.pending = <<>>
              /\ NoSetValuePending /\ IsDefined(userProvider.user)) =>
            /\ IsDefined(userProvider'.user)
            /\ userContextValue'.isAuthenticated
            /\ \A f \in UserFields :
                  userProvider'.user[1][f] =
                      IF \E i \in DOMAIN userProvider.pending :
                              IsDefined(userProvider.pending[i].updates[f])
                      THEN LastSupplied(userProvider.pending, f)
                      ELSE userProvider.user[1][f]]_vars

\* logout was rendered, updateUser was called after it and rendered too:
\* the context still has no user
C30_Witness ==
    /\ userHistory.loggedOut
    /\ userHistory.updatedSince
    /\ userProvider.pending = <<>>
    /\ userContextValue = [user |-> Undefined, isAuthenticated |-> FALSE]

====
